---- MODULE Spec2Model ----
(***************************************************************************)
(* The ledger core of the DivvyDoo backend: the balance repository, the    *)
(* expense service's recording transaction and the settlement service's    *)
(* state machine, as request handlers running concurrently against one     *)
(* document store.                                                         *)
(*                                                                         *)
(* Money is a float64 in the source.  Here an amount is an integer number  *)
(* of units of 0.001,  so that the tolerance 0.01 of the source is Eps     *)
(* units and a float division is a division rounded to the nearest unit.   *)
(*                                                                         *)
(* A multi-document transaction (session.WithTransaction) keeps the writes *)
(* of its callback out of the store until it commits: the commit applies   *)
(* them all in one step, and a call or a commit that returns an error      *)
(* leaves the store as it was.                                             *)
(***************************************************************************)
EXTENDS Integers, Sequences, FiniteSets, Bags, TLC

\* ------------------------------------------------------------------ bounds

NumProcs == 2
MaxOps == 3
MaxSettlements == 1

MaxExpenses == 2

MaxTries == 2

MaxDetails == 2

MaxRuns == 2

MaxTime == 2

MaxRequests == 4

\* --------------------------------------------------------------- constants

Eps == 10

Cents(n) == n * Eps

Nil == "nil"

Users == {"A", "B", "C"}

UnknownUser == "Z"

Groups == {"g1"}

Scopes == {Nil} \cup Groups

Members == [g \in Groups |-> {"A", "B"}]

Procs == 1..NumProcs

Keys == (Users \cup {UnknownUser}) \X Scopes

SettlementPending == "pending"

SettlementCompleted == "completed"

SettlementFailed == "failed"

SettlementCancelled == "cancelled"

SettlementStatuses ==
    {SettlementPending, SettlementCompleted, SettlementFailed, SettlementCancelled}

BalanceChangeSettlement == "settlement"

ErrSettlementNotFound == "settlement not found"

ErrInvalidSettlement == "invalid settlement request"

ErrSettlementCompleted == "settlement is already completed"

ErrOnlyPayer == "only the payer can complete the settlement"

ErrOnlyPending == "can only cancel pending settlements"

ErrOptimisticLockFailure == "optimistic lock failure: balance was modified"

ErrBalanceNotFound == "balance not found"

ErrTransaction == "transaction failed"

Ok == "ok"

\* ------------------------------------------------------------------- state

VARIABLES
    balances,     \* the balances collection: per (user_id, group_id) its rows, oldest first
    history,      \* the balance_history collection, a bag of rows
    settlements,  \* the settlements collection: settlement_id -> document
    expenses,     \* the expenses collection, a set of documents
    pc,           \* per request handler: where it is in its operation
    call,         \* per request handler: the operation and its arguments
    todo,         \* per request handler: the writes of its transaction callback, in order
    last,         \* the call that returned most recently, with what it returned
    nops,         \* operations started so far
    members,      \* the groups collection: group_id -> its members array
    limiter,      \* the rateLimiter: its requests map and the holder of its mutex
    clock,        \* the time time.Now() returns
    responses     \* per client IP the requests answered: admission time and status

vars == <<balances, history, settlements, expenses, pc, call, todo, last, nops, members,
          limiter, clock, responses>>

\* The state of the rate limiting middleware.
Gate == <<limiter, clock, responses>>

\* ------------------------------------------------------- balance repository

Key(user, group) == <<user, group>>

\* The rows FindOne's filter matches; it returns the oldest, ErrBalanceNotFound if none.
Matching(bals, user, group) == bals[Key(user, group)]

GetByUserAndGroup(bals, user, group) == Head(Matching(bals, user, group))

\* An upsert that sets the amount with $set where UpdateBalance adds it with $inc.
UpdateBalanceOverwrites(bals, user, group, amount) ==
    LET k == Key(user, group) IN
    IF bals[k] = <<>>
    THEN [bals EXCEPT ![k] = <<[balance |-> amount, version |-> 1, currency |-> "USD"]>>]
    ELSE [bals EXCEPT ![k] = <<[Head(bals[k]) EXCEPT !.balance = amount,
                                                     !.version = @ + 1]>> \o Tail(bals[k])]

\* An upsert that leaves the version of a new row at 0.
UpdateBalanceNewRowUnversioned(bals, user, group, amount) ==
    LET k == Key(user, group) IN
    IF bals[k] = <<>>
    THEN [bals EXCEPT ![k] = <<[balance |-> amount, version |-> 0, currency |-> "USD"]>>]
    ELSE [bals EXCEPT ![k] = <<[Head(bals[k]) EXCEPT !.balance = @ + amount,
                                                     !.version = @ + 1]>> \o Tail(bals[k])]

\* An upsert whose filter leaves the group out and so meets the user's personal row.
UpdateBalanceAnyScope(bals, user, group, amount) ==
    LET k == Key(user, Nil) IN
    IF bals[k] = <<>>
    THEN [bals EXCEPT ![k] = <<[balance |-> amount, version |-> 1, currency |-> "USD"]>>]
    ELSE [bals EXCEPT ![k] = <<[Head(bals[k]) EXCEPT !.balance = @ + amount,
                                                     !.version = @ + 1]>>
                              \o Tail(bals[k])]

\* UpdateOne with upsert: $inc balance and version, $setOnInsert the key and "USD".
UpdateBalance(bals, user, group, amount) ==
    LET k == Key(user, group) IN
    IF bals[k] = <<>>
    THEN [bals EXCEPT ![k] = <<[balance |-> amount, version |-> 1, currency |-> "USD"]>>]
    ELSE [bals EXCEPT ![k] = <<[Head(bals[k]) EXCEPT !.balance = @ + amount,
                                                     !.version = @ + 1]>>
                              \o Tail(bals[k])]

\* InsertOne on the history collection.
CreateBalanceHistory(hist, row) == hist (+) SetToBag({row})

\* ---------------------------------------------------- settlement repository

\* UpdateOne filtered by settlement_id alone: the stored status is not looked at.
MarkCompleted(setts, sid, transactionID) ==
    [setts EXCEPT ![sid] = [@ EXCEPT !.status = SettlementCompleted,
                                     !.completed_at = "now",
                                     !.transaction_id = transactionID]]

MarkFailed(setts, sid, reason) ==
    [setts EXCEPT ![sid] = [@ EXCEPT !.status = SettlementFailed,
                                     !.failed_at = "now",
                                     !.failure_reason = reason]]

\* MarkCancelled as a write that replaces the amount along with the status.
MarkCancelledZeroesAmount(setts, sid) ==
    [setts EXCEPT ![sid] = [@ EXCEPT !.status = SettlementCancelled, !.amount = 0]]

MarkCancelled(setts, sid) ==
    [setts EXCEPT ![sid] = [@ EXCEPT !.status = SettlementCancelled]]

UpdateStatus(setts, sid, status) ==
    [setts EXCEPT ![sid] = [@ EXCEPT !.status = status]]

\* ------------------------------------------------------------ transactions

\* One write of a transaction callback, applied to the store.
ApplyWrite(store, w) ==
    CASE w.w = "inc" ->
           [store EXCEPT !.balances = UpdateBalance(@, w.user, w.group, w.amount)]
      [] w.w = "history" ->
           [store EXCEPT !.history = CreateBalanceHistory(@, w.row)]
      [] w.w = "markCompleted" ->
           [store EXCEPT !.settlements = MarkCompleted(@, w.sid, w.transactionID)]
      [] w.w = "insertExpense" ->
           [store EXCEPT !.expenses = @ \cup {w.doc}]

RECURSIVE ApplyWrites(_, _)
ApplyWrites(store, ws) ==
    IF ws = <<>> THEN store ELSE ApplyWrites(ApplyWrite(store, Head(ws)), Tail(ws))

Store == [balances |-> balances, history |-> history,
          settlements |-> settlements, expenses |-> expenses]

NoCall == [op |-> "none"]

Free(p) == pc[p] = "idle" /\ nops < MaxOps

\* A handler goes on after its first step.
Enter(p, c, where, writes) ==
    /\ pc' = [pc EXCEPT ![p] = where]
    /\ call' = [call EXCEPT ![p] = c]
    /\ todo' = [todo EXCEPT ![p] = writes]
    /\ nops' = nops + 1
    /\ UNCHANGED last

\* A handler returns r on a later step.
Leave(p, r) ==
    /\ pc' = [pc EXCEPT ![p] = "idle"]
    /\ call' = [call EXCEPT ![p] = NoCall]
    /\ todo' = [todo EXCEPT ![p] = <<>>]
    /\ last' = [call |-> call[p], result |-> r]
    /\ UNCHANGED nops

\* A handler returns r on its first step.
Reply(p, c, r) ==
    /\ last' = [call |-> c, result |-> r]
    /\ nops' = nops + 1
    /\ UNCHANGED <<pc, call, todo>>

\* The handlers of the ledger (balances, settlements, expenses) never write a group
\* or the rate limiter.
Start(p, c, where, writes) == Enter(p, c, where, writes) /\ UNCHANGED <<members, Gate>>

Finish(p, r) == Leave(p, r) /\ UNCHANGED <<members, Gate>>

Return(p, c, r) == Reply(p, c, r) /\ UNCHANGED <<members, Gate>>

\* A failure that leaves the first write of the callback in the store.
TxnAbortKeepsFirstWrite(p) ==
    /\ pc[p] = "txn"
    /\ LET s == ApplyWrite(Store, Head(todo[p])) IN
         /\ balances' = s.balances
         /\ history' = s.history
         /\ settlements' = s.settlements
         /\ expenses' = s.expenses
    /\ Finish(p, ErrTransaction)

\* StartSession, a call of the callback or the commit returns an error: nothing is kept.
TxnAbort(p) ==
    /\ pc[p] = "txn"
    /\ Finish(p, ErrTransaction)
    /\ UNCHANGED <<balances, history, settlements, expenses>>

\* The callback has returned nil and the commit succeeds: its writes become visible
\* together.
TxnCommit(p) ==
    /\ pc[p] = "txn"
    /\ LET s == ApplyWrites(Store, todo[p]) IN
         /\ balances' = s.balances
         /\ history' = s.history
         /\ settlements' = s.settlements
         /\ expenses' = s.expenses
    /\ Finish(p, Ok)

\* ------------------------------------------------------ settlement service

TransactionIDs == {Nil, "tx1"}

SettlementIds == 1..MaxSettlements

SettlementRequests ==
    [from : {"A", "B"}, to : {"A", "B", UnknownUser}, group : Scopes,
     amount : {0, Cents(5000)}, currency : {"USD"}, status : {SettlementCompleted}]

Exists(sid) == sid \in DOMAIN settlements

NextSettlementId == Cardinality(DOMAIN settlements) + 1

\* A settlement stored with the status that came with the request.
NewSettlementKeepsStatus(sid, req) ==
    [settlement_id |-> sid, from |-> req.from, to |-> req.to, group |-> req.group,
     amount |-> req.amount, currency |-> req.currency, status |-> req.status,
     transaction_id |-> Nil, completed_at |-> Nil, failed_at |-> Nil,
     failure_reason |-> Nil]

\* models.Settlement as settlementRepository.Create stores it.
NewSettlement(sid, req) ==
    [settlement_id |-> sid, from |-> req.from, to |-> req.to, group |-> req.group,
     amount |-> req.amount, currency |-> req.currency, status |-> SettlementPending,
     transaction_id |-> Nil, completed_at |-> Nil, failed_at |-> Nil,
     failure_reason |-> Nil]

CreateSettlementError(req) ==
    IF req.from = req.to THEN ErrInvalidSettlement
    ELSE IF {req.from, req.to} \ Users # {} THEN "user does not exist"
    ELSE IF req.amount <= 0 THEN "amount must be positive"
    ELSE Nil

CreateSettlement(p, req) ==
    /\ Free(p)
    /\ NextSettlementId \in SettlementIds
    /\ LET c == [op |-> "CreateSettlement", req |-> req] IN
       IF CreateSettlementError(req) # Nil
       THEN /\ Return(p, c, CreateSettlementError(req))
            /\ UNCHANGED settlements
       ELSE /\ Return(p, c, Ok)
            /\ settlements' = [s \in DOMAIN settlements \cup {NextSettlementId} |->
                                   IF s = NextSettlementId
                                   THEN NewSettlement(NextSettlementId, req)
                                   ELSE settlements[s]]
    /\ UNCHANGED <<balances, history, expenses>>

\* CompleteWrites with the to-user's increment given the from-user's sign.
CompleteWritesSameSign(settlement, sid, transactionID) ==
    << [w |-> "markCompleted", sid |-> sid, transactionID |-> transactionID],
       [w |-> "inc", user |-> settlement.from, group |-> settlement.group,
        amount |-> settlement.amount],
       [w |-> "inc", user |-> settlement.to, group |-> settlement.group,
        amount |-> settlement.amount],
       [w |-> "history",
        row |-> [user |-> settlement.from, group |-> settlement.group,
                 amount |-> settlement.amount, currency |-> settlement.currency,
                 type |-> BalanceChangeSettlement, reference_id |-> sid]],
       [w |-> "history",
        row |-> [user |-> settlement.to, group |-> settlement.group,
                 amount |-> 0 - settlement.amount, currency |-> settlement.currency,
                 type |-> BalanceChangeSettlement, reference_id |-> sid]] >>

\* The calls of CompleteSettlement's transaction callback, in order.
CompleteWrites(settlement, sid, transactionID) ==
    << [w |-> "markCompleted", sid |-> sid, transactionID |-> transactionID],
       [w |-> "inc", user |-> settlement.from, group |-> settlement.group,
        amount |-> settlement.amount],
       [w |-> "inc", user |-> settlement.to, group |-> settlement.group,
        amount |-> 0 - settlement.amount],
       [w |-> "history",
        row |-> [user |-> settlement.from, group |-> settlement.group,
                 amount |-> settlement.amount, currency |-> settlement.currency,
                 type |-> BalanceChangeSettlement, reference_id |-> sid]],
       [w |-> "history",
        row |-> [user |-> settlement.to, group |-> settlement.group,
                 amount |-> 0 - settlement.amount, currency |-> settlement.currency,
                 type |-> BalanceChangeSettlement, reference_id |-> sid]] >>

\* CompleteSettlementError without the check of the caller.
CompleteSettlementErrorAnyParty(sid, userID) ==
    IF ~Exists(sid) THEN ErrSettlementNotFound
    ELSE IF settlements[sid].status # SettlementPending THEN ErrSettlementCompleted
    ELSE Nil

\* CompleteSettlementError without the check of the status.
CompleteSettlementErrorNoStatus(sid, userID) ==
    IF ~Exists(sid) THEN ErrSettlementNotFound
    ELSE IF settlements[sid].from # userID THEN ErrOnlyPayer
    ELSE Nil

\* What CompleteSettlement returns before it opens its transaction, or Nil.
CompleteSettlementError(sid, userID) ==
    IF ~Exists(sid) THEN ErrSettlementNotFound
    ELSE IF settlements[sid].from # userID THEN ErrOnlyPayer
    ELSE IF settlements[sid].status # SettlementPending THEN ErrSettlementCompleted
    ELSE Nil

\* GetByID and the two checks; the transaction follows in later steps.
CompleteSettlement(p, sid, userID, transactionID) ==
    /\ Free(p)
    /\ LET c == [op |-> "CompleteSettlement", sid |-> sid, userID |-> userID,
                 transactionID |-> transactionID,
                 read |-> IF Exists(sid) THEN settlements[sid].status ELSE Nil] IN
       IF CompleteSettlementError(sid, userID) # Nil
       THEN Return(p, c, CompleteSettlementError(sid, userID))
       ELSE Start(p, c, "txn", CompleteWrites(settlements[sid], sid, transactionID))
    /\ UNCHANGED <<balances, history, settlements, expenses>>

CancelSettlementError(sid, userID) ==
    IF ~Exists(sid) THEN ErrSettlementNotFound
    ELSE IF settlements[sid].from # userID /\ settlements[sid].to # userID
         THEN ErrSettlementNotFound
    ELSE IF settlements[sid].status # SettlementPending THEN ErrOnlyPending
    ELSE Nil

\* GetByID and the two checks; MarkCancelled is a later call on the store.
CancelSettlement(p, sid, userID) ==
    /\ Free(p)
    /\ LET c == [op |-> "CancelSettlement", sid |-> sid, userID |-> userID,
                 read |-> IF Exists(sid) THEN settlements[sid].status ELSE Nil] IN
       IF CancelSettlementError(sid, userID) # Nil
       THEN Return(p, c, CancelSettlementError(sid, userID))
       ELSE Start(p, c, "cancel", <<>>)
    /\ UNCHANGED <<balances, history, settlements, expenses>>

CancelSettlementWrite(p) ==
    /\ pc[p] = "cancel"
    /\ settlements' = MarkCancelled(settlements, call[p].sid)
    /\ Finish(p, Ok)
    /\ UNCHANGED <<balances, history, expenses>>

\* settlementRepository.MarkFailed called by the system (no service method wraps it).
SystemMarkFailed(p, sid, reason) ==
    /\ Free(p)
    /\ LET c == [op |-> "MarkFailed", sid |-> sid, reason |-> reason] IN
       IF ~Exists(sid)
       THEN Return(p, c, ErrSettlementNotFound) /\ UNCHANGED settlements
       ELSE Return(p, c, Ok) /\ settlements' = MarkFailed(settlements, sid, reason)
    /\ UNCHANGED <<balances, history, expenses>>

\* settlementRepository.UpdateStatus called by the system.
SystemUpdateStatus(p, sid, status) ==
    /\ Free(p)
    /\ LET c == [op |-> "UpdateStatus", sid |-> sid, status |-> status] IN
       IF ~Exists(sid)
       THEN Return(p, c, ErrSettlementNotFound) /\ UNCHANGED settlements
       ELSE Return(p, c, Ok) /\ settlements' = UpdateStatus(settlements, sid, status)
    /\ UNCHANGED <<balances, history, expenses>>

\* --------------------------------------------------------- expense service

SplitEqual == "equal"

SplitExact == "exact"

SplitPercentage == "percentage"

SplitShares == "shares"

\* 1.0 in the model's units, and 100.0.
One == Cents(100)

Hundred == 100 * One

\* amount / float64(n) in float64, rounded to the unit.
DivRound(amount, n) == (2 * amount + n) \div (2 * n)

\* (value / total) * amount in float64: its error is far below the unit, so the
\* exact quotient is rounded once.
Ratio(value, total, amount) == (2 * value * amount + total) \div (2 * total)

Abs(x) == IF x < 0 THEN 0 - x ELSE x

RECURSIVE SumValues(_)
SumValues(rows) == IF rows = <<>> THEN 0 ELSE Head(rows).value + SumValues(Tail(rows))

RECURSIVE SumAmounts(_)
SumAmounts(rows) == IF rows = <<>> THEN 0 ELSE Head(rows).amount + SumAmounts(Tail(rows))

UserIDs(rows) == {rows[i].user : i \in DOMAIN rows}

\* The orders in which a range over a Go map may visit the keys S.
Orders(S) == {f \in [1..Cardinality(S) -> S] : \A i, j \in DOMAIN f : f[i] = f[j] => i = j}

\* The structural checks without the comparison of the payers' total.
validateExpenseNoTotal(expense) ==
    IF expense.amount <= 0 THEN "amount must be positive"
    ELSE IF expense.paid_by = <<>> THEN "at least one payer must be specified"
    ELSE IF \E i \in DOMAIN expense.paid_by : expense.paid_by[i].amount <= 0
         THEN "invalid amount for user"
    ELSE IF expense.split.type \notin {SplitEqual, SplitExact, SplitPercentage, SplitShares}
         THEN "invalid split type"
    ELSE Nil

validateExpense(expense) ==
    IF expense.amount <= 0 THEN "amount must be positive"
    ELSE IF expense.paid_by = <<>> THEN "at least one payer must be specified"
    ELSE IF \E i \in DOMAIN expense.paid_by : expense.paid_by[i].amount <= 0
         THEN "invalid amount for user"
    ELSE IF Abs(SumAmounts(expense.paid_by) - expense.amount) > Eps
         THEN "total paid amount does not match expense amount"
    ELSE IF expense.split.type \notin {SplitEqual, SplitExact, SplitPercentage, SplitShares}
         THEN "invalid split type"
    ELSE Nil

\* The user ids validateUsersExist and validateGroupMembership collect.
MentionedUsers(expense) ==
    {expense.creator} \cup UserIDs(expense.paid_by) \cup UserIDs(expense.split.details)

validateUsersExist(expense) ==
    IF MentionedUsers(expense) \ Users # {} THEN "user does not exist" ELSE Nil

validateGroupMembership(groupID, expense) ==
    IF MentionedUsers(expense) \ Members[groupID] # {}
    THEN "user is not a member of group"
    ELSE Nil

EqualParticipants(expense) == UserIDs(expense.paid_by) \cup UserIDs(expense.split.details)

\* An equal split in which no participant takes the remainder.
calculateEqualSharesNoRemainder(expense, order) ==
    LET numParticipants == Cardinality(EqualParticipants(expense))
        equalShare == DivRound(expense.amount, numParticipants)
    IN [i \in 1..numParticipants |-> [user |-> order[i], value |-> equalShare]]

\* order: the order in which the range over the participants map visited them.
calculateEqualShares(expense, order) ==
    LET numParticipants == Cardinality(EqualParticipants(expense))
        equalShare == DivRound(expense.amount, numParticipants)
        total == equalShare * numParticipants
        diff == expense.amount - total
    IN [i \in 1..numParticipants |->
            [user |-> order[i], value |-> IF i = 1 THEN equalShare + diff ELSE equalShare]]

\* The checks of an exact split without the check of the total.
calculateExactSharesErrorNoTotal(expense) ==
    IF expense.split.details = <<>> THEN "exact split requires split details"
    ELSE IF \E i \in DOMAIN expense.split.details : expense.split.details[i].value <= 0
         THEN "invalid amount in exact split"
    ELSE Nil

calculateExactSharesError(expense) ==
    IF expense.split.details = <<>> THEN "exact split requires split details"
    ELSE IF \E i \in DOMAIN expense.split.details : expense.split.details[i].value <= 0
         THEN "invalid amount in exact split"
    ELSE IF Abs(SumValues(expense.split.details) - expense.amount) > Eps
         THEN "total specified amounts do not match expense amount"
    ELSE Nil

\* The listed values returned in the opposite order.
calculateExactSharesReversed(expense) ==
    [i \in DOMAIN expense.split.details |->
        [user |-> expense.split.details[Len(expense.split.details) + 1 - i].user,
         value |-> expense.split.details[Len(expense.split.details) + 1 - i].value]]

calculateExactShares(expense) ==
    [i \in DOMAIN expense.split.details |->
        [user |-> expense.split.details[i].user, value |-> expense.split.details[i].value]]

\* The checks of a percentage split without the check of the total.
calculatePercentageSharesErrorNoTotal(expense) ==
    IF expense.split.details = <<>> THEN "percentage split requires split details"
    ELSE IF \E i \in DOMAIN expense.split.details :
                \/ expense.split.details[i].value <= 0
                \/ expense.split.details[i].value > Hundred
         THEN "invalid percentage"
    ELSE Nil

calculatePercentageSharesError(expense) ==
    IF expense.split.details = <<>> THEN "percentage split requires split details"
    ELSE IF \E i \in DOMAIN expense.split.details :
                \/ expense.split.details[i].value <= 0
                \/ expense.split.details[i].value > Hundred
         THEN "invalid percentage"
    ELSE IF Abs(SumValues(expense.split.details) - Hundred) > Eps
         THEN "total percentage does not equal 100"
    ELSE Nil

\* The shares as they were calculated, the last one included.
LastKeepsItsShare(raw, amount, totalCalculated) == raw

\* The shares of the entries before the last; the last takes what is left of the amount.
RECURSIVE LastAbsorbs(_, _, _)
LastAbsorbs(raw, amount, totalCalculated) ==
    IF Len(raw) = 1
    THEN <<[user |-> raw[1].user, value |-> amount - totalCalculated]>>
    ELSE <<raw[1]>> \o LastAbsorbs(Tail(raw), amount, totalCalculated + raw[1].value)

calculatePercentageShares(expense) ==
    LastAbsorbs([i \in DOMAIN expense.split.details |->
                    [user |-> expense.split.details[i].user,
                     value |-> Ratio(expense.split.details[i].value, Hundred,
                                     expense.amount)]],
                expense.amount, 0)

calculateShareBasedError(expense) ==
    IF expense.split.details = <<>> THEN "share-based split requires split details"
    ELSE IF \E i \in DOMAIN expense.split.details : expense.split.details[i].value <= 0
         THEN "invalid share count"
    ELSE IF SumValues(expense.split.details) = 0 THEN "total shares cannot be zero"
    ELSE Nil

calculateShareBased(expense) ==
    LastAbsorbs([i \in DOMAIN expense.split.details |->
                    [user |-> expense.split.details[i].user,
                     value |-> Ratio(expense.split.details[i].value,
                                     SumValues(expense.split.details),
                                     expense.amount)]],
                expense.amount, 0)

calculateSharesError(expense) ==
    CASE expense.split.type = SplitEqual ->
           IF EqualParticipants(expense) = {} THEN "no participants found for equal split"
           ELSE Nil
      [] expense.split.type = SplitExact -> calculateExactSharesError(expense)
      [] expense.split.type = SplitPercentage -> calculatePercentageSharesError(expense)
      [] expense.split.type = SplitShares -> calculateShareBasedError(expense)
      [] OTHER -> "unsupported split type"

calculateShares(expense, order) ==
    CASE expense.split.type = SplitEqual -> calculateEqualShares(expense, order)
      [] expense.split.type = SplitExact -> calculateExactShares(expense)
      [] expense.split.type = SplitPercentage -> calculatePercentageShares(expense)
      [] expense.split.type = SplitShares -> calculateShareBased(expense)

\* The calls for one split entry without the branch for a payer who is the
\* participant.
RECURSIVE PayerCallsNoSelfNetting(_, _, _)
PayerCallsNoSelfNetting(share, paidBy, group) ==
    IF paidBy = <<>> THEN <<>>
    ELSE LET pb == Head(paidBy) IN
         (IF pb.user # share.user /\ share.value > 0
          THEN <<[w |-> "inc", user |-> share.user, group |-> group,
                  amount |-> 0 - share.value],
                 [w |-> "inc", user |-> pb.user, group |-> group,
                  amount |-> share.value]>>
          ELSE <<>>)
         \o PayerCallsNoSelfNetting(share, Tail(paidBy), group)

\* The UpdateBalance calls updateBalances makes for one split entry, payer by payer.
RECURSIVE PayerCalls(_, _, _)
PayerCalls(share, paidBy, group) ==
    IF paidBy = <<>> THEN <<>>
    ELSE LET pb == Head(paidBy) IN
         (IF pb.user = share.user
          THEN <<[w |-> "inc", user |-> pb.user, group |-> group,
                  amount |-> pb.amount - share.value]>>
          ELSE IF share.value > 0
          THEN <<[w |-> "inc", user |-> share.user, group |-> group,
                  amount |-> 0 - share.value],
                 [w |-> "inc", user |-> pb.user, group |-> group,
                  amount |-> share.value]>>
          ELSE <<>>)
         \o PayerCalls(share, Tail(paidBy), group)

\* The UpdateBalance calls of updateBalances, in order.
RECURSIVE updateBalances(_, _, _)
updateBalances(details, paidBy, group) ==
    IF details = <<>> THEN <<>>
    ELSE PayerCalls(Head(details), paidBy, group)
         \o updateBalances(Tail(details), paidBy, group)

\* The checks of CreateExpense with the share calculation ahead of the membership
\* check.
CreateExpenseErrorSharesFirst(expense) ==
    IF validateExpense(expense) # Nil THEN validateExpense(expense)
    ELSE IF validateUsersExist(expense) # Nil THEN validateUsersExist(expense)
    ELSE IF calculateSharesError(expense) # Nil THEN calculateSharesError(expense)
    ELSE IF expense.group # Nil THEN validateGroupMembership(expense.group, expense)
    ELSE Nil

\* What CreateExpense returns before it opens its transaction, or Nil.
CreateExpenseError(expense) ==
    IF validateExpense(expense) # Nil THEN validateExpense(expense)
    ELSE IF validateUsersExist(expense) # Nil THEN validateUsersExist(expense)
    ELSE IF expense.group # Nil /\ validateGroupMembership(expense.group, expense) # Nil
         THEN validateGroupMembership(expense.group, expense)
    ELSE calculateSharesError(expense)

\* The expense as the transaction stores it: the shares in place of the raw split.
Finalized(expense, id, order) ==
    [expense_id |-> id, group |-> expense.group, creator |-> expense.creator,
     amount |-> expense.amount, paid_by |-> expense.paid_by,
     split |-> [type |-> expense.split.type, details |-> calculateShares(expense, order)]]

\* The calls of CreateExpense's transaction callback, in order.
CreateExpenseWrites(doc) ==
    <<[w |-> "insertExpense", doc |-> doc]>>
    \o updateBalances(doc.split.details, doc.paid_by, doc.group)

\* The validations and the share calculation; the transaction follows in later steps.
CreateExpense(p, expense, order) ==
    /\ Free(p)
    /\ nops < MaxExpenses
    /\ IF CreateExpenseError(expense) # Nil
       THEN Return(p, [op |-> "CreateExpense", expense |-> expense],
                   CreateExpenseError(expense))
       ELSE LET doc == Finalized(expense, nops + 1, order) IN
            Start(p, [op |-> "CreateExpense", expense |-> expense, doc |-> doc],
                  "txn", CreateExpenseWrites(doc))
    /\ UNCHANGED <<balances, history, settlements, expenses>>

Paid(user, amount) == [user |-> user, amount |-> amount]

Raw(user, value) == [user |-> user, value |-> value]

Expense(group, creator, amount, paidBy, type, details) ==
    [group |-> group, creator |-> creator, amount |-> amount, paid_by |-> paidBy,
     split |-> [type |-> type, details |-> details]]

\* The expenses the handlers are asked to record.
ExpenseRequests ==
    { Expense(Nil, "A", Cents(9000), <<Paid("A", Cents(9000))>>, SplitEqual,
              <<Raw("A", 0), Raw("B", 0), Raw("C", 0)>>),
      Expense("g1", "B", Cents(10000), <<Paid("B", Cents(10000))>>, SplitEqual,
              <<Raw("A", 0)>>),
      Expense("g1", "A", Cents(6000), <<Paid("A", Cents(4000)), Paid("B", Cents(2000))>>,
              SplitExact, <<Raw("A", Cents(1000)), Raw("B", Cents(5000))>>),
      Expense(Nil, "A", Cents(9000), <<Paid("A", Cents(9000))>>, SplitShares,
              <<Raw("B", One), Raw("C", 2 * One)>>),
      Expense(Nil, "C", Cents(1000), <<Paid("C", Cents(1000))>>, SplitPercentage,
              <<Raw("A", 30 * One), Raw("C", 70 * One)>>),
      Expense(Nil, "A", 0, <<Paid("A", Cents(9000))>>, SplitEqual, <<>>),
      Expense(Nil, "A", Cents(9000), <<Paid(UnknownUser, Cents(9000))>>, SplitEqual, <<>>),
      Expense("g1", "A", Cents(9000), <<Paid("A", Cents(9000))>>, SplitEqual,
              <<Raw("C", 0)>>),
      Expense(Nil, "A", Cents(9000), <<Paid("A", Cents(9000))>>, SplitExact,
              <<Raw("B", Cents(8000))>>) }

\* The lists of at most MaxDetails split entries over the users and values given.
DetailLists(users, values) ==
    UNION {[1..n -> {Raw(u, v) : u \in users, v \in values}] : n \in 0..MaxDetails}

\* Personal expenses of a given amount that A has paid in full, of one split type.
SplitsOf(type, amounts, users, values) ==
    {Expense(Nil, "A", a, <<Paid("A", a)>>, type, d) :
        a \in amounts, d \in DetailLists(users, values)}

\* Expenses that exercise the split calculator: per split type the amounts and the
\* entry values that reach its checks and its rounding.
SplitRequests ==
    SplitsOf(SplitEqual, {Cents(1000), Cents(100), Cents(10)}, {"A", "B", "C"}, {0})
    \cup SplitsOf(SplitExact, {Cents(1000)}, {"A", "B"},
                  {0, Cents(300), Cents(700), Cents(1000) - 5, Cents(1000)})
    \cup SplitsOf(SplitPercentage, {Cents(1000), Cents(10)}, {"A", "B"},
                  {0, One, 30 * One, 70 * One, 99 * One, Hundred - 5, Hundred,
                   101 * One})
    \cup SplitsOf(SplitShares, {Cents(1000), Cents(100)}, {"A", "B"},
                  {0, One, 2 * One, 3 * One})

\* Expenses that exercise the checks made before the split is calculated.
CheckRequests ==
    {Expense(g, c, a, pb, t, d) :
        g \in Scopes, c \in {"A", "C", UnknownUser}, a \in {0, Cents(1000)},
        pb \in {<<>>, <<Paid("A", Cents(1000))>>, <<Paid("A", 0), Paid("B", Cents(1000))>>,
                <<Paid("A", Cents(500))>>, <<Paid("A", Cents(500)), Paid("B", Cents(500))>>,
                <<Paid("A", Cents(1001))>>, <<Paid("A", Cents(1002))>>,
                <<Paid(UnknownUser, Cents(1000))>>, <<Paid("C", Cents(1000))>>},
        t \in {SplitEqual, SplitExact, "custom"},
        d \in {<<>>, <<Raw("B", 0)>>, <<Raw("C", 0)>>, <<Raw(UnknownUser, 0)>>,
               <<Raw("B", Cents(1000))>>}}

\* Expenses for the split calculator alone: equal splits without a payer, and splits
\* whose shares leave a remainder for one entry to take.
CalculatorRequests ==
    SplitsOf(SplitEqual, {Cents(1000)}, {"A", "B"}, {0})
    \cup {Expense(Nil, "A", Cents(1000), <<>>, SplitEqual, d) : d \in DetailLists({"A", "B"}, {0})}
    \cup { Expense(Nil, "A", Cents(1000), <<Paid("A", Cents(1000))>>, SplitShares,
                   <<Raw("A", One), Raw("B", One), Raw("C", One)>>),
           Expense(Nil, "A", Cents(1000), <<Paid("A", Cents(1000))>>, SplitPercentage,
                   <<Raw("A", 30 * One), Raw("B", 70 * One - Eps)>>),
           Expense(Nil, "A", Cents(1000), <<Paid("A", Cents(1000))>>, SplitPercentage,
                   <<Raw("B", 70 * One - Eps), Raw("A", 30 * One)>>),
           Expense(Nil, "A", Cents(1000), <<Paid("A", Cents(1000))>>, SplitPercentage,
                   <<Raw("A", Hundred), Raw("B", 5)>>),
           Expense(Nil, "A", Cents(1000), <<Paid("A", Cents(1000))>>, "custom", <<>>) }

\* calculateShares applied to an expense as it is given; nothing is stored.
CalculateShares(p, expense, order) ==
    /\ Free(p)
    /\ LET c == [op |-> "calculateShares", expense |-> expense] IN
       IF calculateSharesError(expense) # Nil
       THEN Return(p, c @@ [shares |-> <<>>], calculateSharesError(expense))
       ELSE Return(p, c @@ [shares |-> calculateShares(expense, order)], Ok)
    /\ UNCHANGED <<balances, history, settlements, expenses>>

\* ------------------------------------------- balance repository, called directly

\* The (user, scope) pairs and the amounts the direct callers use.
BalanceUsers == {"A"}

BalanceAmounts == {Cents(1000), Cents(2500)}

\* A collection without the unique index: InsertOne never fails.
IsDuplicateKeyErrorNoIndex(bals, k) == FALSE

\* InsertOne fails with a duplicate key when the pair already has a row: the unique
\* index on (user_id, group_id) that Create's duplicate-key branch relies on.
IsDuplicateKeyError(bals, k) == bals[k] # <<>>

\* The row Create inserts: the caller's balance with version 1.
NewBalance(amount) == [balance |-> amount, version |-> 1, currency |-> "USD"]

\* Create inserts the row, or on a duplicate key returns the row that is there; it
\* returns no error in either case.
Create(p, user, group, amount) ==
    /\ Free(p)
    /\ LET k == Key(user, group) IN
       IF IsDuplicateKeyError(balances, k)
       THEN /\ UNCHANGED balances
            /\ Return(p, [op |-> "Create", user |-> user, group |-> group,
                          returned |-> GetByUserAndGroup(balances, user, group)], Ok)
       ELSE /\ balances' = [balances EXCEPT ![k] = Append(@, NewBalance(amount))]
            /\ Return(p, [op |-> "Create", user |-> user, group |-> group,
                          returned |-> NewBalance(amount)], Ok)
    /\ UNCHANGED <<history, settlements, expenses>>

\* UpdateBalance called outside a transaction: one upsert.
AdjustBalance(p, user, group, amount) ==
    /\ Free(p)
    /\ balances' = UpdateBalance(balances, user, group, amount)
    /\ Return(p, [op |-> "UpdateBalance", user |-> user, group |-> group,
                  amount |-> amount], Ok)
    /\ UNCHANGED <<history, settlements, expenses>>

\* GetByUserAndGroup called for its result: the row, or ErrBalanceNotFound.
ReadBalance(p, user, group) ==
    /\ Free(p)
    /\ LET c == [op |-> "GetByUserAndGroup", user |-> user, group |-> group] IN
       IF Matching(balances, user, group) = <<>>
       THEN Return(p, c @@ [returned |-> Nil],
                   ErrBalanceNotFound)
       ELSE Return(p, c @@ [returned |-> GetByUserAndGroup(balances, user, group)], Ok)
    /\ UNCHANGED <<balances, history, settlements, expenses>>

\* The value GetUserBalanceInGroup builds when the repository finds no row; it has
\* no version, which is the zero value of the field.
ZeroBalance == [balance |-> 0, version |-> 0, currency |-> "USD"]

\* GetUserBalanceInGroup that stores the zero balance it returns.
GetUserBalanceInGroupCreates(p, user, group) ==
    /\ Free(p)
    /\ LET c == [op |-> "GetUserBalanceInGroup", user |-> user, group |-> group] IN
       IF Matching(balances, user, group) = <<>>
       THEN /\ Return(p, c @@ [returned |-> ZeroBalance], Ok)
            /\ balances' = [balances EXCEPT ![Key(user, group)] = <<ZeroBalance>>]
       ELSE /\ Return(p, c @@ [returned |-> GetByUserAndGroup(balances, user, group)], Ok)
            /\ UNCHANGED balances
    /\ UNCHANGED <<history, settlements, expenses>>

\* BalanceService.GetUserBalanceInGroup: the row of (user, group), or a zero balance
\* in place of ErrBalanceNotFound; the group is always given.
GetUserBalanceInGroup(p, user, group) ==
    /\ Free(p)
    /\ LET c == [op |-> "GetUserBalanceInGroup", user |-> user, group |-> group] IN
       IF Matching(balances, user, group) = <<>>
       THEN Return(p, c @@ [returned |-> ZeroBalance], Ok)
       ELSE Return(p, c @@ [returned |-> GetByUserAndGroup(balances, user, group)], Ok)
    /\ UNCHANGED <<balances, history, settlements, expenses>>

\* A caller reads a row with GetByUserAndGroup and sets the amount it wants to store
\* in the record it got; read keeps the row as it was read.
ReadForUpdate(p, user, group, amount) ==
    /\ Free(p)
    /\ IF Matching(balances, user, group) = <<>>
       THEN Return(p, [op |-> "GetByUserAndGroup", user |-> user, group |-> group],
                   ErrBalanceNotFound)
       ELSE Start(p, [op |-> "UpdateBalanceWithVersion", user |-> user, group |-> group,
                      read |-> GetByUserAndGroup(balances, user, group),
                      balance |-> [GetByUserAndGroup(balances, user, group)
                                      EXCEPT !.balance = amount],
                      tries |-> 0],
                  "cas", <<>>)
    /\ UNCHANGED <<balances, history, settlements, expenses>>

\* Whether the filter of UpdateBalanceWithVersion matches a row: the pair of the
\* record and the version the record carried when the call was made.
MatchedCount(bals, k, currentVersion) ==
    IF bals[k] # <<>> /\ Head(bals[k]).version = currentVersion THEN 1 ELSE 0

\* A versioned update that stores the stored version again instead of the next one.
UpdateBalanceWithVersionSameVersion(p) ==
    /\ pc[p] = "cas"
    /\ call[p].tries < MaxTries
    /\ LET k == Key(call[p].user, call[p].group)
           currentVersion == call[p].balance.version
       IN IF MatchedCount(balances, k, currentVersion) = 0
          THEN /\ UNCHANGED balances
               /\ call' = [call EXCEPT ![p].balance.version = @ + 1, ![p].tries = @ + 1]
               /\ last' = [call |-> call[p], result |-> ErrOptimisticLockFailure]
               /\ UNCHANGED <<pc, todo, nops, members, Gate>>
          ELSE /\ balances' = [balances EXCEPT ![k] =
                                  <<[Head(@) EXCEPT !.balance = call[p].balance.balance]>>
                                  \o Tail(@)]
               /\ Finish(p, Ok)
    /\ UNCHANGED <<history, settlements, expenses>>

\* The caller passes its record to UpdateBalanceWithVersion.  The version of the
\* caller's record is incremented before the update is sent and stays incremented
\* when no row matched; after the error the caller still holds the record.
UpdateBalanceWithVersion(p) ==
    /\ pc[p] = "cas"
    /\ call[p].tries < MaxTries
    /\ LET k == Key(call[p].user, call[p].group)
           currentVersion == call[p].balance.version
           submitted == [call[p].balance EXCEPT !.version = currentVersion + 1]
       IN IF MatchedCount(balances, k, currentVersion) = 0
          THEN /\ UNCHANGED balances
               /\ call' = [call EXCEPT ![p].balance = submitted, ![p].tries = @ + 1]
               /\ last' = [call |-> call[p], result |-> ErrOptimisticLockFailure]
               /\ UNCHANGED <<pc, todo, nops, members, Gate>>
          ELSE /\ balances' = [balances EXCEPT ![k] =
                                  <<[Head(@) EXCEPT !.balance = submitted.balance,
                                                    !.version = submitted.version]>>
                                  \o Tail(@)]
               /\ Finish(p, Ok)
    /\ UNCHANGED <<history, settlements, expenses>>

\* The caller lets go of the record it holds.
DropRecord(p) ==
    /\ pc[p] = "cas"
    /\ call[p].tries > 0
    /\ pc' = [pc EXCEPT ![p] = "idle"]
    /\ call' = [call EXCEPT ![p] = NoCall]
    /\ UNCHANGED <<balances, history, settlements, expenses, todo, last, nops, members, Gate>>

\* ---------------------------------------------------------- specifications

\* ---------------------------------------------------------- group repository

RoleAdmin == "admin"

RoleMember == "member"

ErrNotGroupAdmin == "user is not an admin of this group"

ErrUserNotFound == "user not found"

ErrMemberAlreadyExists == "user is already a member of this group"

ErrMemberNotInGroup == "member not found in group"

GroupMember(user, role, active) == [user_id |-> user, role |-> role, is_active |-> active]

\* $elemMatch {user_id, is_active: true} on the members array.
IsMember(all, group, user) ==
    \E i \in DOMAIN all[group] :
        all[group][i].user_id = user /\ all[group][i].is_active

\* $push of the new entry at the end of the members array.
PushMember(all, group, member) ==
    [all EXCEPT ![group] = Append(@, member)]

\* The query "members.user_id": user matches the document when some entry has the
\* user id; the positional operator then addresses the first such entry.
MatchesMember(all, group, user) ==
    \E i \in DOMAIN all[group] : all[group][i].user_id = user

FirstMatch(all, group, user) ==
    CHOOSE i \in DOMAIN all[group] :
        /\ all[group][i].user_id = user
        /\ \A j \in 1..(i - 1) : all[group][j].user_id # user

DeactivateMember(all, group, user) ==
    [all EXCEPT ![group][FirstMatch(all, group, user)].is_active = FALSE]

\* ------------------------------------------------------------- group service

isGroupAdmin(all, group, user) ==
    \E i \in DOMAIN all[group] :
        /\ all[group][i].user_id = user
        /\ all[group][i].is_active
        /\ all[group][i].role = RoleAdmin

Ledger == <<balances, history, settlements, expenses>>

\* AddMember up to the membership check of the repository; the $push follows in
\* a separate operation on the collection.
AddMember(p, group, admin, user, role) ==
    /\ Free(p)
    /\ LET c == [op |-> "AddMember", group |-> group, admin |-> admin,
                 user |-> user,
                 role |-> IF role = RoleAdmin THEN RoleAdmin ELSE RoleMember] IN
       IF ~isGroupAdmin(members, group, admin) THEN Reply(p, c, ErrNotGroupAdmin)
       ELSE IF user \notin Users THEN Reply(p, c, ErrUserNotFound)
       ELSE IF IsMember(members, group, user) THEN Reply(p, c, ErrMemberAlreadyExists)
       ELSE Enter(p, c, "push", <<>>)
    /\ UNCHANGED members
    /\ UNCHANGED <<Ledger, Gate>>

AddMemberPush(p) ==
    /\ pc[p] = "push"
    /\ members' = PushMember(members, call[p].group,
                             GroupMember(call[p].user, call[p].role, TRUE))
    /\ Leave(p, Ok)
    /\ UNCHANGED <<Ledger, Gate>>

\* RemoveMember up to the admin check; the update follows in a separate operation.
RemoveMember(p, group, admin, user) ==
    /\ Free(p)
    /\ LET c == [op |-> "RemoveMember", group |-> group, admin |-> admin, user |-> user] IN
       IF ~isGroupAdmin(members, group, admin) THEN Reply(p, c, ErrNotGroupAdmin)
       ELSE Enter(p, c, "remove", <<>>)
    /\ UNCHANGED members
    /\ UNCHANGED <<Ledger, Gate>>

RemoveMemberUpdate(p) ==
    /\ pc[p] = "remove"
    /\ IF MatchesMember(members, call[p].group, call[p].user)
       THEN /\ members' = DeactivateMember(members, call[p].group, call[p].user)
            /\ Leave(p, Ok)
       ELSE /\ UNCHANGED members
            /\ Leave(p, ErrMemberNotInGroup)
    /\ UNCHANGED <<Ledger, Gate>>

LeaveGroup(p, group, user) ==
    /\ Free(p)
    /\ LET c == [op |-> "LeaveGroup", group |-> group, user |-> user] IN
       IF MatchesMember(members, group, user)
       THEN /\ members' = DeactivateMember(members, group, user)
            /\ Reply(p, c, Ok)
       ELSE /\ UNCHANGED members
            /\ Reply(p, c, ErrMemberNotInGroup)
    /\ UNCHANGED <<Ledger, Gate>>

\* -------------------------------------------------------------- token service

ErrInvalidToken == "invalid token"

ErrExpiredToken == "token has expired"

NilDereference == "panic: invalid memory address or nil pointer dereference"

Times == 0..MaxTime

\* The lifetime the service was constructed with.
expiration == 1

SigningMethods == {"HS256", "RS256"}

Emails == [u \in {"A", "B"} |-> IF u = "A" THEN "a@divvydoo" ELSE "b@divvydoo"]

\* A token string: its header, its claims and whether its signature verifies
\* under the secret key of the service.
Claims(user, email, exp, nbf) ==
    [user_id |-> user, email |-> email, exp |-> exp, nbf |-> nbf]

Token(alg, claims, signed) == [alg |-> alg, claims |-> claims, signed |-> signed]

GenerateToken(user, email, now) ==
    Token("HS256", Claims(user, email, now + expiration, now), TRUE)

\* A string that is not a token, the empty string among them.
NoToken == [alg |-> Nil]

\* The nil *Claims.
NoClaims == [user_id |-> Nil]

TokenStrings ==
    {NoToken} \cup
    {Token(alg, Claims(u, Emails[u], exp, nbf), signed) :
        alg \in SigningMethods, u \in {"A", "B"}, exp \in Times, nbf \in Times,
        signed \in BOOLEAN}

\* The error of jwt.ParseWithClaims: a string that does not parse, a method the
\* key function refuses and a signature that does not verify are reported before
\* the claims are looked at; the errors of the claims are joined.
ParseErrors(tokenString, now) ==
    IF tokenString = NoToken THEN {"malformed"}
    ELSE IF tokenString.alg # "HS256" THEN {"unverifiable"}
    ELSE IF ~tokenString.signed THEN {"signature invalid"}
    ELSE (IF now > tokenString.claims.exp THEN {"expired"} ELSE {})
         \cup (IF now < tokenString.claims.nbf THEN {"not valid yet"} ELSE {})

ValidateToken(tokenString, now) ==
    LET err == ParseErrors(tokenString, now) IN
    IF err # {}
    THEN IF "expired" \in err
         THEN [claims |-> NoClaims, err |-> ErrExpiredToken]
         ELSE [claims |-> NoClaims, err |-> ErrInvalidToken]
    ELSE [claims |-> tokenString.claims, err |-> Nil]

\* RefreshToken goes on to claims.UserID after ErrExpiredToken, with the nil claims
\* ValidateToken returned together with that error.
RefreshToken(tokenString, now) ==
    LET v == ValidateToken(tokenString, now) IN
    IF v.err # Nil /\ v.err # ErrExpiredToken
    THEN [token |-> NoToken, err |-> v.err]
    ELSE IF v.claims = NoClaims
         THEN [token |-> NoToken, err |-> NilDereference]
         ELSE [token |-> GenerateToken(v.claims.user_id, v.claims.email, now), err |-> Nil]

CallValidateToken(p, tokenString, now) ==
    /\ Free(p)
    /\ LET v == ValidateToken(tokenString, now) IN
       Return(p, [op |-> "ValidateToken", token |-> tokenString, now |-> now,
                  returned |-> v.claims],
              IF v.err = Nil THEN Ok ELSE v.err)
    /\ UNCHANGED Ledger

CallRefreshToken(p, tokenString, now) ==
    /\ Free(p)
    /\ LET r == RefreshToken(tokenString, now) IN
       Return(p, [op |-> "RefreshToken", token |-> tokenString, now |-> now,
                  returned |-> r.token],
              IF r.err = Nil THEN Ok ELSE r.err)
    /\ UNCHANGED Ledger

\* ------------------------------------------------------------- rate limiter

ClientIPs == {"ip1", "ip2"}

\* requestsPerSecond, the limit the middleware was constructed with.
limit == 2

\* time.Second in ticks of the clock.
window == 2

StatusOK == "200"

StatusTooManyRequests == "429"

\* The mutex when no handler holds it.
Unlocked == 0

newRateLimiter == [requests |-> [ip \in ClientIPs |-> <<>>], mu |-> Unlocked]

\* A cleaning that forgets every earlier request.
validRequestsNone(requests, windowStart) == <<>>

\* The requests of the list made after windowStart.
validRequests(requests, windowStart) ==
    LET After(t) == t > windowStart IN SelectSeq(requests, After)

\* The handler of a request from ip takes the mutex of the limiter, reads the time
\* and cleans the list of the ip.
AllowClean(p, ip) ==
    /\ pc[p] = "idle"
    /\ nops < MaxRequests
    /\ limiter.mu = Unlocked
    /\ limiter' = [requests |-> [limiter.requests EXCEPT
                                   ![ip] = validRequests(@, clock - window)],
                   mu |-> p]
    /\ Enter(p, [op |-> "allow", ip |-> ip, now |-> clock], "allow", <<>>)
    /\ UNCHANGED <<Ledger, members, clock, responses>>

\* It compares the length of the list with the limit, records the request when
\* it admits it, releases the mutex and answers.
AllowAdmit(p) ==
    /\ pc[p] = "allow"
    /\ LET ip == call[p].ip IN
       IF Len(limiter.requests[ip]) >= limit
       THEN /\ limiter' = [limiter EXCEPT !.mu = Unlocked]
            /\ responses' = [responses EXCEPT ![ip] =
                                Append(@, [time |-> call[p].now,
                                           status |-> StatusTooManyRequests])]
            /\ Leave(p, StatusTooManyRequests)
       ELSE /\ limiter' = [requests |-> [limiter.requests EXCEPT
                                           ![ip] = Append(@, call[p].now)],
                           mu |-> Unlocked]
            /\ responses' = [responses EXCEPT ![ip] =
                                Append(@, [time |-> call[p].now, status |-> StatusOK])]
            /\ Leave(p, StatusOK)
    /\ UNCHANGED <<Ledger, members, clock>>

\* Time passes.
Tick ==
    /\ clock < MaxTime
    /\ clock' = clock + 1
    /\ UNCHANGED <<Ledger, members, limiter, responses, pc, call, todo, last, nops>>

\* -------------------------------------------------------------------- start

Init ==
    /\ balances = [k \in Keys |-> <<>>]
    /\ history = EmptyBag
    /\ settlements = [s \in {} |-> Nil]
    /\ expenses = {}
    /\ pc = [p \in Procs |-> "idle"]
    /\ call = [p \in Procs |-> NoCall]
    /\ todo = [p \in Procs |-> <<>>]
    /\ last = [call |-> NoCall, result |-> Nil]
    /\ members = [g \in Groups |-> <<GroupMember("A", RoleAdmin, TRUE),
                                      GroupMember("B", RoleMember, TRUE)>>]
    /\ limiter = newRateLimiter
    /\ clock = 0
    /\ responses = [ip \in ClientIPs |-> <<>>]
    /\ nops = 0

NextSettle ==
    \E p \in Procs :
        \/ \E req \in SettlementRequests : CreateSettlement(p, req)
        \/ \E sid \in SettlementIds, u \in Users, t \in TransactionIDs :
               CompleteSettlement(p, sid, u, t)
        \/ \E sid \in SettlementIds, u \in Users : CancelSettlement(p, sid, u)
        \/ CancelSettlementWrite(p)
        \/ \E sid \in SettlementIds : SystemMarkFailed(p, sid, "declined")
        \/ \E sid \in SettlementIds, st \in SettlementStatuses :
               SystemUpdateStatus(p, sid, st)
        \/ TxnAbort(p)
        \/ TxnCommit(p)

SpecSettle == Init /\ [][NextSettle]_vars

NextExpense ==
    \E p \in Procs :
        \/ \E e \in ExpenseRequests :
              \E order \in (IF e.split.type = SplitEqual
                             THEN Orders(EqualParticipants(e)) ELSE {<<>>}) :
                  CreateExpense(p, e, order)
        \/ TxnAbort(p)
        \/ TxnCommit(p)

SpecExpense == Init /\ [][NextExpense]_vars

NextBalance ==
    \E p \in Procs :
        \/ \E u \in BalanceUsers, g \in Scopes, a \in BalanceAmounts : Create(p, u, g, a)
        \/ \E u \in BalanceUsers, g \in Scopes, a \in BalanceAmounts :
              AdjustBalance(p, u, g, a)
        \/ \E u \in BalanceUsers, g \in Scopes, a \in BalanceAmounts :
              ReadForUpdate(p, u, g, a)
        \/ \E u \in BalanceUsers, g \in Scopes : ReadBalance(p, u, g)
        \/ \E u \in BalanceUsers, g \in Groups : GetUserBalanceInGroup(p, u, g)
        \/ UpdateBalanceWithVersion(p)
        \/ DropRecord(p)

SpecBalance == Init /\ [][NextBalance]_vars

\* One call of CreateExpense with an expense drawn from the request families, and
\* the transaction it opens.
NextRecord ==
    \E p \in Procs :
        \/ /\ nops = 0
           /\ \E e \in SplitRequests \cup CheckRequests :
                 \E order \in (IF e.split.type = SplitEqual
                                THEN Orders(EqualParticipants(e)) ELSE {<<>>}) :
                     CreateExpense(p, e, order)
        \/ TxnAbort(p)
        \/ TxnCommit(p)

SpecRecord == Init /\ [][NextRecord]_vars

\* A transaction that returns only while no other transaction is open.
WithTransactionWaits(p) ==
    /\ \A q \in Procs \ {p} : pc[q] # "txn"
    /\ (TxnCommit(p) \/ TxnAbort(p))

\* session.WithTransaction returns: the transaction has committed, or it has failed
\* (an error of the callback or of the commit, or the store's time limit) and is gone.
WithTransaction(p) == TxnCommit(p) \/ TxnAbort(p)

\* The requests served side by side: personal settlements that A owes B and personal
\* expenses that A pays for B, which meet on the balance rows of A and B.
LiveSettlementRequests ==
    {r \in SettlementRequests :
        r.from = "A" /\ r.to = "B" /\ r.group = Nil /\ r.amount > 0}

LiveExpenseRequests ==
    { Expense(Nil, "A", Cents(9000), <<Paid("A", Cents(9000))>>, SplitExact,
              <<Raw("B", Cents(9000))>>),
      Expense(Nil, "A", Cents(9000), <<Paid("A", Cents(9000))>>, SplitExact,
              <<Raw("B", Cents(8000))>>) }

\* Expenses and settlement completions served side by side.
NextLive ==
    \E p \in Procs :
        \/ \E req \in LiveSettlementRequests : CreateSettlement(p, req)
        \/ \E sid \in SettlementIds, u \in {"A", "B"} :
               CompleteSettlement(p, sid, u, Nil)
        \/ \E e \in LiveExpenseRequests :
               \E order \in (IF e.split.type = SplitEqual
                              THEN Orders(EqualParticipants(e)) ELSE {<<>>}) :
                   CreateExpense(p, e, order)
        \/ WithTransaction(p)

\* The store is fair: a transaction that can return does return.
SpecLive == Init /\ [][NextLive]_vars /\ \A p \in Procs : WF_vars(WithTransaction(p))

\* One call of the split calculator with an expense drawn from the request families.
NextShares ==
    \E p \in Procs :
        /\ nops = 0
        /\ \E e \in SplitRequests \cup CalculatorRequests :
              \E order \in (IF e.split.type = SplitEqual
                             THEN Orders(EqualParticipants(e)) ELSE {<<>>}) :
                  CalculateShares(p, e, order)

SpecShares == Init /\ [][NextShares]_vars

\* Settlements between A and B in either scope.
LedgerSettlementRequests ==
    {r \in SettlementRequests : r.from = "A" /\ r.to = "B" /\ r.amount > 0}

\* Expenses and settlements that write to the same ledger.
NextLedger ==
    \E p \in Procs :
        \/ \E req \in LedgerSettlementRequests : CreateSettlement(p, req)
        \/ \E sid \in SettlementIds : CompleteSettlement(p, sid, "A", Nil)
        \/ \E e \in ExpenseRequests :
               \E order \in (IF e.split.type = SplitEqual
                              THEN Orders(EqualParticipants(e)) ELSE {<<>>}) :
                   CreateExpense(p, e, order)
        \/ TxnAbort(p)
        \/ TxnCommit(p)

SpecLedger == Init /\ [][NextLedger]_vars

\* Two calls of the split calculator, so that two runs on one expense can be compared.
RepeatRequests ==
    {e \in SplitRequests \cup CalculatorRequests :
        e.split.type = SplitEqual \/ e \in CalculatorRequests}

NextRepeat ==
    \E p \in Procs :
        /\ nops < MaxRuns
        /\ \E e \in RepeatRequests :
              \E order \in (IF e.split.type = SplitEqual
                             THEN Orders(EqualParticipants(e)) ELSE {<<>>}) :
                  CalculateShares(p, e, order)

SpecRepeat == Init /\ [][NextRepeat]_vars

\* The group endpoints: an admin adds and removes members, members leave.
NextGroup ==
    \E p \in Procs :
        \/ \E g \in Groups, admin \in {"A", "B"}, u \in {"B", "C", UnknownUser},
              role \in {RoleMember, RoleAdmin} : AddMember(p, g, admin, u, role)
        \/ AddMemberPush(p)
        \/ \E g \in Groups, admin \in {"A", "B"}, u \in {"B", "C"} :
              RemoveMember(p, g, admin, u)
        \/ RemoveMemberUpdate(p)
        \/ \E g \in Groups, u \in {"B", "C"} : LeaveGroup(p, g, u)

SpecGroup == Init /\ [][NextGroup]_vars

\* Tokens of any kind presented at any time.
NextToken ==
    \E p \in Procs :
        /\ nops = 0
        /\ \E t \in TokenStrings, now \in Times :
              \/ CallValidateToken(p, t, now)
              \/ CallRefreshToken(p, t, now)

SpecToken == Init /\ [][NextToken]_vars

\* Requests from the client IPs pass the rate limiting middleware while time passes.
NextLimit ==
    \/ \E p \in Procs :
          \/ \E ip \in ClientIPs : AllowClean(p, ip)
          \/ AllowAdmit(p)
    \/ Tick

SpecLimit == Init /\ [][NextLimit]_vars

Next == NextSettle \/ NextExpense \/ NextBalance

Spec == Init /\ [][Next]_vars


\* One handler at a time, and only the service's own operations.
Quiet(p) == \A q \in Procs \ {p} : pc[q] = "idle"

NextService ==
    \E p \in Procs :
        \/ \E req \in SettlementRequests : CreateSettlement(p, req)
        \/ \E sid \in SettlementIds, u \in Users, t \in TransactionIDs :
               CompleteSettlement(p, sid, u, t)
        \/ \E sid \in SettlementIds, u \in Users : CancelSettlement(p, sid, u)
        \/ CancelSettlementWrite(p)
        \/ TxnAbort(p)
        \/ TxnCommit(p)

SpecService == Init /\ [][NextService]_vars

NextSeq ==
    \E p \in Procs :
        \/ \E req \in SettlementRequests : Quiet(p) /\ CreateSettlement(p, req)
        \/ \E sid \in SettlementIds, u \in Users, t \in TransactionIDs :
               Quiet(p) /\ CompleteSettlement(p, sid, u, t)
        \/ \E sid \in SettlementIds, u \in Users : Quiet(p) /\ CancelSettlement(p, sid, u)
        \/ Quiet(p) /\ CancelSettlementWrite(p)
        \/ Quiet(p) /\ TxnAbort(p)
        \/ Quiet(p) /\ TxnCommit(p)

SpecSeq == Init /\ [][NextSeq]_vars

\* -------------------------------------------------------- settlement properties

BalanceOf(k) == IF balances[k] = <<>> THEN 0 ELSE Head(balances[k]).balance

VersionOf(k) == IF balances[k] = <<>> THEN 0 ELSE Head(balances[k]).version

\* The balance delta a completed settlement stands for, per (user, scope).
SettlementEffect(d, k) ==
    (IF k = Key(d.from, d.group) THEN d.amount ELSE 0)
    - (IF k = Key(d.to, d.group) THEN d.amount ELSE 0)

RECURSIVE SumOver(_, _, _)
SumOver(S, F(_, _), k) ==
    IF S = {} THEN 0
    ELSE LET x == CHOOSE y \in S : TRUE IN F(x, k) + SumOver(S \ {x}, F, k)

CompletedSettlements ==
    {settlements[s] : s \in {t \in DOMAIN settlements :
                                settlements[t].status = SettlementCompleted}}

SettlementRow(d, user, amount) ==
    [user |-> user, group |-> d.group, amount |-> amount, currency |-> d.currency,
     type |-> BalanceChangeSettlement, reference_id |-> d.settlement_id]

\* C1: with the service's calls made one after the other, a completeSettlement by the
\* from-user that finds the settlement already completed returns the already-finalized
\* error, and however often it is called a completed settlement has moved its amount
\* once: every balance is the sum of the completed settlements' deltas, and each
\* completed settlement has exactly one history row per party.
C1_SecondCompleteIsRefused ==
    /\ (/\ last.call.op = "CompleteSettlement"
        /\ last.call.read = SettlementCompleted
        /\ last.call.userID = settlements[last.call.sid].from)
       => last.result = ErrSettlementCompleted
    /\ (\A p \in Procs : pc[p] = "idle") =>
          /\ \A k \in Keys : BalanceOf(k) = SumOver(CompletedSettlements, SettlementEffect, k)
          /\ \A s \in DOMAIN settlements :
                LET d == settlements[s]
                    n == IF d.status = SettlementCompleted THEN 1 ELSE 0 IN
                /\ CopiesIn(SettlementRow(d, d.from, d.amount), history) = n
                /\ CopiesIn(SettlementRow(d, d.to, 0 - d.amount), history) = n

C1_Witness ==
    /\ last.call.op = "CompleteSettlement"
    /\ last.call.read = SettlementCompleted
    /\ last.result = ErrSettlementCompleted
    /\ \E s \in DOMAIN settlements :
          /\ last.call.sid = s
          /\ last.call.userID = settlements[s].from
          /\ BalanceOf(Key(settlements[s].from, settlements[s].group)) = settlements[s].amount
          /\ BalanceOf(Key(settlements[s].to, settlements[s].group)) = 0 - settlements[s].amount

TerminalStatuses == {SettlementCompleted, SettlementFailed, SettlementCancelled}

\* C2: a settlement whose status is completed, failed or cancelled keeps that status
\* in every later step.
C2_TerminalIsFinal ==
    [][\A s \in DOMAIN settlements :
          settlements[s].status \in TerminalStatuses
          => settlements'[s].status = settlements[s].status]_vars

\* The step in which handler p's CompleteSettlement transaction commits.
CompleteCommits(p) ==
    /\ pc[p] = "txn"
    /\ call[p].op = "CompleteSettlement"
    /\ pc'[p] = "idle"
    /\ last'.result = Ok

\* The step in which handler p's CompleteSettlement transaction ends without a commit.
CompleteFails(p) ==
    /\ pc[p] = "txn"
    /\ call[p].op = "CompleteSettlement"
    /\ pc'[p] = "idle"
    /\ last'.result # Ok

\* C5: the commit of a completeSettlement sets the status to completed with the
\* completion time and the caller's transaction reference, adds the amount to the
\* from-user's balance and subtracts it from the to-user's in the settlement's scope,
\* touches no other balance and appends exactly the two history rows that refer to
\* the settlement; a completeSettlement transaction that ends in an error leaves the
\* settlements, the balances and the history as they were.
C5_CompletionIsOneStep ==
    [][\A p \in Procs :
          /\ CompleteCommits(p) =>
                LET d == settlements[call[p].sid] IN
                /\ settlements' = [settlements EXCEPT ![call[p].sid] =
                                      [d EXCEPT !.status = SettlementCompleted,
                                                !.completed_at = "now",
                                                !.transaction_id = call[p].transactionID]]
                /\ \A k \in Keys :
                      BalanceOf(k)' = BalanceOf(k) + SettlementEffect(d, k)
                /\ history' = (history (+) SetToBag({SettlementRow(d, d.from, d.amount)}))
                                (+) SetToBag({SettlementRow(d, d.to, 0 - d.amount)})
          /\ CompleteFails(p) => UNCHANGED <<settlements, balances, history>>]_vars

C5_Witness ==
    /\ last.call.op = "CompleteSettlement"
    /\ last.result = Ok
    /\ last.call.transactionID = "tx1"
    /\ settlements[last.call.sid].status = SettlementCompleted
    /\ settlements[last.call.sid].transaction_id = "tx1"
    /\ BalanceOf(Key("A", "g1")) = Cents(5000)
    /\ BalanceOf(Key("B", "g1")) = 0 - Cents(5000)
    /\ BagCardinality(history) = 2

\* ----------------------------------------------------------- expense properties

\* The sum of the increments that the writes ws make to balance row k.
RECURSIVE NetOf(_, _)
NetOf(ws, k) ==
    IF ws = <<>> THEN 0
    ELSE (IF Head(ws).w = "inc" /\ Key(Head(ws).user, Head(ws).group) = k
          THEN Head(ws).amount ELSE 0) + NetOf(Tail(ws), k)

\* The number of increments that the writes ws make to balance row k.
RECURSIVE CountOf(_, _)
CountOf(ws, k) ==
    IF ws = <<>> THEN 0
    ELSE (IF Head(ws).w = "inc" /\ Key(Head(ws).user, Head(ws).group) = k
          THEN 1 ELSE 0) + CountOf(Tail(ws), k)

ExpenseEffect(doc, k) == NetOf(CreateExpenseWrites(doc), k)

ExpenseTouches(doc, k) == CountOf(CreateExpenseWrites(doc), k)

\* The sum of the amounts of the history rows of balance row k.
HistorySum(k) ==
    LET Amount(row, key) == IF Key(row.user, row.group) = key
                            THEN row.amount * CopiesIn(row, history) ELSE 0
    IN SumOver(BagToSet(history), Amount, k)

\* The step in which handler p's CreateExpense transaction commits.
ExpenseCommits(p) ==
    /\ pc[p] = "txn"
    /\ call[p].op = "CreateExpense"
    /\ pc'[p] = "idle"
    /\ last'.result = Ok

\* The step in which handler p's CreateExpense transaction ends without a commit.
ExpenseFails(p) ==
    /\ pc[p] = "txn"
    /\ call[p].op = "CreateExpense"
    /\ pc'[p] = "idle"
    /\ last'.result # Ok

\* C3: in every reachable state the amounts of the history rows of a (user, scope)
\* add up to the amount of its balance row, 0 when there is no row.
C3_HistoryReconciles == \A k \in Keys : HistorySum(k) = BalanceOf(k)

\* C4: in every reachable state the stored balances are exactly the increments of
\* the stored expenses, amounts and versions alike, so no expense is visible without
\* all of its increments and no increment without its expense; a recordExpense
\* transaction that fails leaves the expenses and every balance row as they were,
\* and one that commits adds its expense document in that same step.
C4_ExpenseAllOrNothing ==
    /\ [](\A k \in Keys :
            /\ BalanceOf(k) = SumOver(expenses, ExpenseEffect, k)
            /\ VersionOf(k) = SumOver(expenses, ExpenseTouches, k))
    /\ [][\A p \in Procs :
            /\ ExpenseFails(p) => UNCHANGED <<expenses, balances>>
            /\ ExpenseCommits(p) => /\ call[p].doc \notin expenses
                                    /\ expenses' = expenses \cup {call[p].doc}]_vars

C4_Witness ==
    /\ last.call.op = "CreateExpense"
    /\ last.result = ErrTransaction
    /\ last.call.doc \notin expenses
    /\ \E d \in expenses : \E k \in Keys : BalanceOf(k) = ExpenseEffect(d, k) /\ BalanceOf(k) # 0

SinglePayerEqualSplit(doc) ==
    /\ doc.split.type = SplitEqual
    /\ Len(doc.paid_by) = 1

\* The share of user u in the split of doc.
ShareOf(doc, u) ==
    LET i == CHOOSE j \in DOMAIN doc.split.details : doc.split.details[j].user = u
    IN doc.split.details[i].value

\* C6: when one payer pays the whole amount of an equally split expense, the commit
\* changes the payer's balance by the amount minus the payer's own share and every
\* other participant's balance by minus that participant's share.
C6_SinglePayerEqualDeltas ==
    [][\A p \in Procs :
          (ExpenseCommits(p) /\ SinglePayerEqualSplit(call[p].doc)) =>
             LET doc == call[p].doc
                 payer == doc.paid_by[1].user
             IN \A u \in UserIDs(doc.split.details) :
                   \A k \in {Key(u, doc.group)} :
                      BalanceOf(k)' - BalanceOf(k)
                        = IF u = payer THEN doc.amount - ShareOf(doc, u)
                                       ELSE 0 - ShareOf(doc, u)]_vars

\* C7: the commit of an expense transaction adds its increments to whatever the
\* balance rows hold when it commits, and raises each version by one per increment,
\* whatever other transactions have committed since it was opened.
C7_ConcurrentIncrementsAdd ==
    [][\A p \in Procs :
          ExpenseCommits(p) =>
             \A k \in Keys :
                /\ BalanceOf(k)' = BalanceOf(k) + ExpenseEffect(call[p].doc, k)
                /\ VersionOf(k)' = VersionOf(k) + ExpenseTouches(call[p].doc, k)]_vars

\* Two expense transactions were open together, each with one increment of B's
\* personal balance; the one opened first has committed last.
C7_Witness ==
    /\ last.call.op = "CreateExpense"
    /\ last.result = Ok
    /\ \E d \in expenses :
          /\ d.expense_id > last.call.doc.expense_id
          /\ ExpenseTouches(d, Key("B", Nil)) = 1
          /\ ExpenseTouches(last.call.doc, Key("B", Nil)) = 1
          /\ BalanceOf(Key("B", Nil))
               = ExpenseEffect(d, Key("B", Nil)) + ExpenseEffect(last.call.doc, Key("B", Nil))
          /\ BalanceOf(Key("B", Nil)) = 0 - Cents(6000)
          /\ VersionOf(Key("B", Nil)) = 2

\* ------------------------------------------------ balance repository properties

\* Handler p's call of UpdateBalanceWithVersion returns in this step.
CompareAndSetReturns(p) ==
    /\ pc[p] = "cas"
    /\ call[p].op = "UpdateBalanceWithVersion"
    /\ last'.call = call[p]
    /\ \/ pc'[p] = "idle" /\ last'.result = Ok
       \/ call'[p].tries = call[p].tries + 1 /\ last'.result = ErrOptimisticLockFailure

\* C8: a call of compareAndSet changes the stored row only if the stored version is
\* the version the caller read; when the two differ the call returns the
\* optimistic-lock error and the stored rows are as they were.
C8_WritesOnlyAtReadVersion ==
    [][\A p \in Procs :
          CompareAndSetReturns(p) =>
             \A k \in {Key(call[p].user, call[p].group)} :
                /\ balances'[k] # balances[k] => VersionOf(k) = call[p].read.version
                /\ VersionOf(k) # call[p].read.version =>
                      /\ last'.result = ErrOptimisticLockFailure
                      /\ balances' = balances]_vars

\* The same for a record that is submitted as it was read: the first call after the
\* read.
FirstSubmissionRespectsVersion ==
    [][\A p \in Procs :
          (CompareAndSetReturns(p) /\ call[p].tries = 0) =>
             \A k \in {Key(call[p].user, call[p].group)} :
                /\ balances'[k] # balances[k] => VersionOf(k) = call[p].read.version
                /\ VersionOf(k) # call[p].read.version =>
                      /\ last'.result = ErrOptimisticLockFailure
                      /\ balances' = balances]_vars

\* C9: when another writer has changed the row since the caller read it, the
\* caller's compareAndSet returns the optimistic-lock error and leaves the row with
\* the other writer's change; a compareAndSet that succeeds replaces exactly the row
\* the caller read, so no update is lost.
C9_NoLostUpdate ==
    [][\A p \in Procs :
          CompareAndSetReturns(p) =>
             \A k \in {Key(call[p].user, call[p].group)} :
                /\ Head(balances[k]) # call[p].read =>
                      /\ last'.result = ErrOptimisticLockFailure
                      /\ balances'[k] = balances[k]
                /\ last'.result = Ok => Head(balances[k]) = call[p].read]_vars

AdjustReturns ==
    /\ nops' = nops + 1
    /\ pc' = pc
    /\ last'.call.op = "UpdateBalance"

\* C11: a blind increment of an absent row creates it with the increment as its
\* amount, version 1 and the default currency; on an existing row it adds the
\* increment to the amount, raises the version by exactly 1 and keeps the currency;
\* the row stays the row of its (user, scope) and no other row changes.
C11_AdjustUpserts ==
    [][AdjustReturns =>
          \A k \in Keys :
             IF k = Key(last'.call.user, last'.call.group)
             THEN IF balances[k] = <<>>
                  THEN balances'[k] = <<[balance |-> last'.call.amount, version |-> 1,
                                         currency |-> "USD"]>>
                  ELSE balances'[k] =
                         <<[balance |-> Head(balances[k]).balance + last'.call.amount,
                            version |-> Head(balances[k]).version + 1,
                            currency |-> Head(balances[k]).currency]>>
             ELSE balances'[k] = balances[k]]_vars

\* A blind increment has created a row and a second one has added to it.
C11_Witness ==
    /\ last.call.op = "UpdateBalance"
    /\ last.call.amount = Cents(2500)
    /\ \A k \in {Key(last.call.user, last.call.group)} :
          /\ balances[k] = <<[balance |-> Cents(1000) + Cents(2500), version |-> 2,
                              currency |-> "USD"]>>
    /\ nops = 2

\* C12: the stored version of a balance row never decreases, and every step that
\* changes the row, a blind increment or a versioned update that matched, raises it
\* by exactly 1 (a row that is not there counts as version 0).
C12_VersionGrowsByOne ==
    [][\A k \in Keys :
          /\ VersionOf(k)' >= VersionOf(k)
          /\ balances'[k] # balances[k] => VersionOf(k)' = VersionOf(k) + 1]_vars

\* A versioned update has succeeded on a row that a blind increment had changed.
C12_Witness ==
    /\ last.call.op = "UpdateBalanceWithVersion"
    /\ last.result = Ok
    /\ last.call.read.version = 2
    /\ VersionOf(Key(last.call.user, last.call.group)) = 3

\* ----------------------------------------------- expense validation properties

\* The shares of a finalized expense add up to its amount within the tolerance.
SharesAddUp(doc) == Abs(SumValues(doc.split.details) - doc.amount) <= Eps

\* C13: every expense that the split calculator accepts, of whichever split type,
\* carries shares whose sum is the expense amount within 0.01, in the transaction
\* that records it and in the stored document.
C13_SharesSumToAmount ==
    /\ \A p \in Procs : call[p].op = "CreateExpense" => SharesAddUp(call[p].doc)
    /\ \A d \in expenses : SharesAddUp(d)

\* A split of 10.00 by share counts 1 and 2 is stored as 3.333 and 6.667.
C13_Witness ==
    \E d \in expenses :
       /\ d.split.type = SplitShares
       /\ d.amount = Cents(1000)
       /\ d.split.details = <<Raw("A", 3333), Raw("B", 6667)>>

\* The store holds nothing.
NothingRecorded ==
    /\ expenses = {}
    /\ history = EmptyBag
    /\ settlements = <<>>
    /\ \A k \in Keys : balances[k] = <<>>

\* The expense passes the checks that CreateExpense makes before it calculates the
\* shares.
PassesEarlierChecks(e) ==
    /\ validateExpense(e) = Nil
    /\ validateUsersExist(e) = Nil
    /\ e.group # Nil => validateGroupMembership(e.group, e) = Nil

\* The percentages are there, each lies in (0, 100] and they add up to 100 within
\* 0.01.
WellFormedPercentages(e) ==
    /\ e.split.details # <<>>
    /\ \A i \in DOMAIN e.split.details :
          e.split.details[i].value > 0 /\ e.split.details[i].value <= 100 * One
    /\ SumValues(e.split.details) - 100 * One <= Eps
    /\ 100 * One - SumValues(e.split.details) <= Eps

PercentageErrors ==
    {"percentage split requires split details", "invalid percentage",
     "total percentage does not equal 100"}

\* C14: a percentage split resolves to one share per entry exactly when its list is
\* not empty, every value lies in (0, 100] and the values add up to 100 within 0.01;
\* otherwise the call returns a validation error of the percentage split and the
\* store holds nothing.
C14_PercentagesMustTotal100 ==
    /\ \A p \in Procs :
          (call[p].op = "CreateExpense"
             /\ call[p].expense.split.type = SplitPercentage) =>
             /\ WellFormedPercentages(call[p].expense)
             /\ UserIDs(call[p].doc.split.details)
                  = UserIDs(call[p].expense.split.details)
             /\ Len(call[p].doc.split.details) = Len(call[p].expense.split.details)
    /\ (last.call.op = "CreateExpense"
          /\ last.call.expense.split.type = SplitPercentage
          /\ PassesEarlierChecks(last.call.expense)) =>
          IF WellFormedPercentages(last.call.expense)
          THEN last.result \in {Ok, ErrTransaction}
          ELSE last.result \in PercentageErrors /\ NothingRecorded

\* Percentages of 100 and 1, each valid alone, add up to 101 and are refused.
C14_Witness ==
    /\ last.call.op = "CreateExpense"
    /\ last.call.expense.split.type = SplitPercentage
    /\ last.call.expense.split.details = <<Raw("A", Hundred), Raw("B", One)>>
    /\ last.result = "total percentage does not equal 100"
    /\ NothingRecorded

\* The expense breaks one of the structural preconditions of recordExpense.
Malformed(e) ==
    \/ e.amount <= 0
    \/ Len(e.paid_by) = 0
    \/ \E i \in DOMAIN e.paid_by : e.paid_by[i].amount <= 0
    \/ SumAmounts(e.paid_by) - e.amount > Eps
    \/ e.amount - SumAmounts(e.paid_by) > Eps
    \/ e.split.type \notin {"equal", "exact", "percentage", "shares"}

StructuralErrors ==
    {"amount must be positive", "at least one payer must be specified",
     "invalid amount for user", "total paid amount does not match expense amount",
     "invalid split type"}

\* C15: an expense with an amount <= 0, with no payer, with a payer amount <= 0,
\* with payer amounts that differ from the amount by more than 0.01 in total, or
\* with an unknown split type is refused with a structural validation error, opens
\* no transaction and leaves the store holding nothing.
C15_MalformedExpenseRefused ==
    /\ \A p \in Procs : call[p].op = "CreateExpense" => ~Malformed(call[p].expense)
    /\ (last.call.op = "CreateExpense" /\ Malformed(last.call.expense)) =>
          /\ last.result \in StructuralErrors
          /\ NothingRecorded

\* Payers' amounts of 10.02 in total against an amount of 10.00 are refused.
C15_Witness ==
    /\ last.call.op = "CreateExpense"
    /\ last.call.expense.amount = Cents(1000)
    /\ last.call.expense.paid_by = <<Paid("A", Cents(1002))>>
    /\ last.result = "total paid amount does not match expense amount"
    /\ NothingRecorded

\* The users an expense mentions: its creator, its payers and its split participants.
Mentioned(e) ==
    {e.creator} \cup {e.paid_by[i].user : i \in DOMAIN e.paid_by}
                \cup {e.split.details[i].user : i \in DOMAIN e.split.details}

MentionsUnknownUser(e) == \E u \in Mentioned(e) : u \notin Users

MentionsNonMember(e) == e.group # Nil /\ \E u \in Mentioned(e) : u \notin Members[e.group]

\* C16: an expense that mentions a user who does not exist, or, being scoped to a
\* group, a user who is not an active member of it, is refused and leaves the store
\* holding nothing; a structural error comes before the unknown user, the unknown
\* user before the non-member and the non-member before any error of the split.
C16_ReferentialChecksInOrder ==
    /\ \A p \in Procs :
          call[p].op = "CreateExpense" =>
             /\ ~MentionsUnknownUser(call[p].expense)
             /\ ~MentionsNonMember(call[p].expense)
    /\ last.call.op = "CreateExpense" =>
          LET e == last.call.expense IN
          IF Malformed(e)
          THEN last.result \in StructuralErrors /\ NothingRecorded
          ELSE IF MentionsUnknownUser(e)
          THEN last.result = "user does not exist" /\ NothingRecorded
          ELSE IF MentionsNonMember(e)
          THEN last.result = "user is not a member of group" /\ NothingRecorded
          ELSE last.result \notin StructuralErrors
                  \cup {"user does not exist", "user is not a member of group"}

\* A group expense paid by a user who exists but is no member of the group, with an
\* exact split that the calculator would refuse too: the membership error is returned.
C16_Witness ==
    /\ last.call.op = "CreateExpense"
    /\ last.call.expense.group = "g1"
    /\ last.call.expense.creator = "A"
    /\ last.call.expense.paid_by = <<Paid("C", Cents(1000))>>
    /\ last.call.expense.split = [type |-> SplitExact, details |-> <<Raw("B", 0)>>]
    /\ last.result = "user is not a member of group"
    /\ NothingRecorded

\* ------------------------------------------- settlement state machine properties

\* A call of CreateSettlement returns in this step.
CreateSettlementReturns ==
    /\ nops' = nops + 1
    /\ pc' = pc
    /\ last'.call.op = "CreateSettlement"

\* The request names two different users who both exist and a positive amount.
ValidSettlementRequest(req) ==
    /\ req.from # req.to
    /\ req.amount > 0
    /\ req.from \in Users /\ req.to \in Users

\* C17: createSettlement succeeds only for a request with two different existing
\* users and a positive amount, and then stores one new settlement with the
\* request's parties, scope and amount and the status pending, whatever status came
\* with the request; any other request gets an error and the settlements stay as
\* they were.  No call changes a balance or the history.
C17_CreateStoresPending ==
    [][CreateSettlementReturns =>
          /\ UNCHANGED <<balances, history>>
          /\ IF ValidSettlementRequest(last'.call.req)
             THEN /\ last'.result = Ok
                  /\ \E sid \in DOMAIN settlements' \ DOMAIN settlements :
                        /\ DOMAIN settlements' = DOMAIN settlements \cup {sid}
                        /\ settlements'[sid].status = "pending"
                        /\ settlements'[sid].from = last'.call.req.from
                        /\ settlements'[sid].to = last'.call.req.to
                        /\ settlements'[sid].group = last'.call.req.group
                        /\ settlements'[sid].amount = last'.call.req.amount
                  /\ \A s \in DOMAIN settlements : settlements'[s] = settlements[s]
             ELSE /\ last'.result # Ok
                  /\ settlements' = settlements]_vars

\* A request that came with the status completed is stored as pending.
C17_Witness ==
    /\ last.call.op = "CreateSettlement"
    /\ last.result = Ok
    /\ last.call.req.status = SettlementCompleted
    /\ \E s \in DOMAIN settlements :
          /\ settlements[s].status = SettlementPending
          /\ settlements[s].from = last.call.req.from
          /\ settlements[s].amount = Cents(5000)

\* A call of CompleteSettlement returns on its first step, before any transaction.
CompleteSettlementRefuses ==
    /\ nops' = nops + 1
    /\ pc' = pc
    /\ last'.call.op = "CompleteSettlement"

\* The caller of the returned call is not the from-user of an existing settlement.
CalledByNonPayer(c) ==
    /\ Exists(c.sid)
    /\ settlements[c.sid].from # c.userID

\* C18: completeSettlement called by anyone but the settlement's from-user returns
\* the payer error on its first step and leaves the settlements (status included),
\* the balances and the history as they were; no transaction of CompleteSettlement
\* is ever open for a caller who is not the from-user.
C18_OnlyPayerCompletes ==
    /\ [][CompleteSettlementRefuses /\ CalledByNonPayer(last'.call) =>
             /\ last'.result = ErrOnlyPayer
             /\ UNCHANGED <<settlements, balances, history>>]_vars
    /\ [](\A p \in Procs :
             call[p].op = "CompleteSettlement" =>
                settlements[call[p].sid].from = call[p].userID)

\* The to-user of a pending settlement called CompleteSettlement and was refused;
\* the settlement is still pending and nothing was written.
C18_Witness ==
    /\ last.call.op = "CompleteSettlement"
    /\ last.result = ErrOnlyPayer
    /\ Exists(last.call.sid)
    /\ settlements[last.call.sid].to = last.call.userID
    /\ settlements[last.call.sid].status = SettlementPending
    /\ history = EmptyBag
    /\ \A k \in Keys : balances[k] = <<>>

\* Process p's call of CancelSettlement returns in this step, at once or after its write.
CancelSettlementReturns(p) ==
    \/ /\ pc[p] = "cancel"
       /\ pc'[p] = "idle"
    \/ /\ pc[p] = "idle"
       /\ pc'[p] = "idle"
       /\ nops' = nops + 1
       /\ last'.call.op = "CancelSettlement"

\* Settlement sid differs between this state and the next in its status only,
\* which becomes cancelled, and every other settlement is the same.
OnlyStatusBecomesCancelled(sid) ==
    /\ DOMAIN settlements' = DOMAIN settlements
    /\ settlements'[sid] = [settlements[sid] EXCEPT !.status = SettlementCancelled]
    /\ \A s \in DOMAIN settlements \ {sid} : settlements'[s] = settlements[s]

\* C19: cancelSettlement succeeds only for the from-user or the to-user of a
\* settlement that exists and is pending when the cancellation takes effect; a
\* success changes that settlement's status to cancelled and nothing else (the
\* update timestamp is not modelled), a refusal changes no settlement, and no call
\* changes a balance row or the history.
C19_CancelOnlyFromPending ==
    [][\A p \in Procs :
          CancelSettlementReturns(p) =>
             /\ UNCHANGED <<balances, history>>
             /\ IF last'.result = Ok
                THEN /\ Exists(last'.call.sid)
                     /\ last'.call.userID \in {settlements[last'.call.sid].from,
                                                settlements[last'.call.sid].to}
                     /\ settlements[last'.call.sid].status = SettlementPending
                     /\ OnlyStatusBecomesCancelled(last'.call.sid)
                ELSE UNCHANGED settlements]_vars

\* A call of settlementRepository.MarkFailed returns in this step.
MarkFailedReturns ==
    /\ nops' = nops + 1
    /\ pc' = pc
    /\ last'.call.op = "MarkFailed"

\* The balance deltas of settlement sid have been applied: the completion that wrote
\* them wrote the settlement's history rows in the same transaction.
DeltasApplied(sid) ==
    \E row \in BagToSet(history) :
        /\ row.type = BalanceChangeSettlement
        /\ row.reference_id = sid

\* C20: marking a settlement failed stores the reason given and a failure time with
\* the status failed and changes no balance row and no history row, and a settlement
\* that was marked failed has never had its balance deltas applied.
C20_FailedNeverApplied ==
    /\ [][MarkFailedReturns /\ last'.result = Ok =>
             /\ settlements'[last'.call.sid].status = SettlementFailed
             /\ settlements'[last'.call.sid].failure_reason = last'.call.reason
             /\ settlements'[last'.call.sid].failed_at # Nil
             /\ UNCHANGED <<balances, history>>]_vars
    /\ [](\A sid \in DOMAIN settlements :
             (/\ settlements[sid].status = SettlementFailed
              /\ settlements[sid].failure_reason # Nil) => ~DeltasApplied(sid))

\* The fields of a settlement that its creation fixes.
Terms(d) ==
    [settlement_id |-> d.settlement_id, from |-> d.from, to |-> d.to,
     group |-> d.group, amount |-> d.amount, currency |-> d.currency]

\* C21: once a settlement is stored, no step of any operation (complete, cancel,
\* mark-failed, status update, in any interleaving) changes its amount, currency,
\* from-user, to-user or scope, and no settlement is ever removed.
C21_TermsAreFixed ==
    [][\A sid \in DOMAIN settlements :
          /\ sid \in DOMAIN settlements'
          /\ Terms(settlements'[sid]) = Terms(settlements[sid])]_vars

\* A settlement that was completed and then cancelled by a late status write still
\* has the parties and the amount it was created with.
C21_Witness ==
    /\ last.call.op = "CancelSettlement"
    /\ last.result = Ok
    /\ settlements[last.call.sid].status = SettlementCancelled
    /\ settlements[last.call.sid].completed_at # Nil
    /\ settlements[last.call.sid].amount = Cents(5000)
    /\ settlements[last.call.sid].from # settlements[last.call.sid].to

\* ----------------------------------------------------- balance read properties

\* A read of a balance returns in this step.
ReadReturns ==
    /\ nops' = nops + 1
    /\ pc' = pc
    /\ last'.call.op \in {"GetByUserAndGroup", "GetUserBalanceInGroup"}

\* C22: a repository read of a (user, scope) pair without a row returns the
\* not-found error and no balance, and GetUserBalanceInGroup returns a balance of
\* zero without an error in that case; with a row both return the row as stored;
\* neither read creates or changes a row or writes anything else.
C22_MissingRowReads ==
    [][ReadReturns =>
          /\ UNCHANGED <<balances, history, settlements, expenses>>
          /\ \A k \in {Key(last'.call.user, last'.call.group)} :
                IF balances[k] = <<>>
                THEN IF last'.call.op = "GetByUserAndGroup"
                     THEN last'.result = ErrBalanceNotFound
                     ELSE /\ last'.result = Ok
                          /\ last'.call.returned.balance = 0
                ELSE /\ last'.result = Ok
                     /\ last'.call.returned = Head(balances[k])]_vars

\* GetUserBalanceInGroup has answered with a zero balance for a pair that has no
\* row, and the pair still has none.
C22_Witness ==
    /\ last.call.op = "GetUserBalanceInGroup"
    /\ last.result = Ok
    /\ last.call.returned.balance = 0
    /\ balances[Key(last.call.user, last.call.group)] = <<>>
    /\ \E k \in Keys : balances[k] # <<>>

\* ------------------------------------------------------- termination properties

\* C23: with a fair store, every CreateExpense and every CompleteSettlement that has
\* opened its transaction returns, with its writes committed or with the transaction
\* error, whatever other transactions are open on the same balance rows; no handler
\* stays in its transaction for ever.
C23_TransactionsFinish ==
    \A p \in Procs : (pc[p] = "txn") ~> (pc[p] = "idle")

\* A transaction of CreateExpense has committed while a transaction of
\* CompleteSettlement that touches the same balance row is still open.
C23_Witness ==
    /\ last.call.op = "CreateExpense"
    /\ last.result = Ok
    /\ \E q \in Procs :
          /\ pc[q] = "txn"
          /\ call[q].op = "CompleteSettlement"
          /\ \E k \in Keys :
                /\ CountOf(todo[q], k) > 0
                /\ ExpenseTouches(last.call.doc, k) > 0

\* ------------------------------------------------------- concurrency properties

\* The settlements whose balance deltas have been applied at least once.
AppliedSettlements == {settlements[s] : s \in {t \in DOMAIN settlements : DeltasApplied(t)}}

\* C24: however the completeSettlement calls of the from-user on one pending
\* settlement interleave, the settlement's two history rows are written at most
\* once each and every balance holds the deltas of each applied settlement once.
C24_CompletedAtMostOnce ==
    /\ \A s \in DOMAIN settlements :
          /\ CopiesIn(SettlementRow(settlements[s], settlements[s].from,
                                    settlements[s].amount), history) <= 1
          /\ CopiesIn(SettlementRow(settlements[s], settlements[s].to,
                                    0 - settlements[s].amount), history) <= 1
    /\ \A k \in Keys : BalanceOf(k) = SumOver(AppliedSettlements, SettlementEffect, k)

\* ------------------------------------------------------------ ledger properties

\* The sum of the balances of all users in scope g.
ScopeTotal(g) ==
    LET Amount(user, scope) == BalanceOf(Key(user, scope))
    IN SumOver(Users \cup {UnknownUser}, Amount, g)

\* C25: whatever expenses have been committed and settlements completed, the
\* balances of all users in one scope add up to zero.
C25_ScopeSumsToZero ==
    \A g \in Scopes : ScopeTotal(g) = 0

\* C26: in every state reached by interleaving completeSettlement and
\* cancelSettlement, a settlement's balance deltas have been applied exactly when
\* its status is completed; a cancelled settlement has changed no balance.
C26_AppliedIffCompleted ==
    \A s \in DOMAIN settlements :
        DeltasApplied(s) <=> settlements[s].status = SettlementCompleted

\* -------------------------------------------------- optimistic locking properties

\* C27: a compareAndSet that fails with the optimistic-lock error leaves the
\* caller's record as it was, its version included, and a record that has failed
\* once and is submitted again without a new read fails again and changes no row.
C27_FailureKeepsRecord ==
    [][\A p \in Procs :
          CompareAndSetReturns(p) =>
             /\ last'.result = ErrOptimisticLockFailure =>
                   call'[p].balance = call[p].balance
             /\ call[p].tries > 0 =>
                   /\ last'.result = ErrOptimisticLockFailure
                   /\ balances' = balances]_vars

\* ----------------------------------------------------- balance delta properties

\* What the pair of split entry i and payer j of doc adds to the balance of user u.
PairDelta(doc, i, j, u) ==
    LET share == doc.split.details[i]
        pb == doc.paid_by[j]
    IN IF pb.user = share.user
       THEN (IF u = pb.user THEN pb.amount - share.value ELSE 0)
       ELSE IF share.value > 0
       THEN (IF u = share.user THEN 0 - share.value ELSE 0)
            + (IF u = pb.user THEN share.value ELSE 0)
       ELSE 0

\* The number of increments the pair of split entry i and payer j makes to user u.
PairTouches(doc, i, j, u) ==
    LET share == doc.split.details[i]
        pb == doc.paid_by[j]
    IN IF pb.user = share.user
       THEN (IF u = pb.user THEN 1 ELSE 0)
       ELSE IF share.value > 0
       THEN (IF u \in {share.user, pb.user} THEN 1 ELSE 0)
       ELSE 0

\* The (split entry, payer) pairs of doc.
Pairs(doc) == (DOMAIN doc.split.details) \X (DOMAIN doc.paid_by)

\* C28: the commit of an expense changes the balance of every user in the expense's
\* scope by the sum, over all (split entry, payer) pairs, of amountPaid - share for
\* a payer who is the participant and of -share for the participant and +share for
\* the payer otherwise (nothing for a share that is not positive), with one
\* increment per term, and changes no balance of another scope.
C28_PairwiseDeltas ==
    [][\A p \in Procs :
          ExpenseCommits(p) =>
             \A doc \in {call[p].doc} :
                \A k \in Keys :
                   LET Delta(pair, u) == PairDelta(doc, pair[1], pair[2], u)
                       Touches(pair, u) == PairTouches(doc, pair[1], pair[2], u)
                   IN IF k[2] = doc.group
                      THEN /\ BalanceOf(k)' - BalanceOf(k) = SumOver(Pairs(doc), Delta, k[1])
                           /\ VersionOf(k)' - VersionOf(k) = SumOver(Pairs(doc), Touches, k[1])
                      ELSE balances'[k] = balances[k]]_vars

\* An expense of 60.00 in the group, paid 40.00 by A and 20.00 by B and split 10.00 to
\* A and 50.00 to B, has committed: four pairs, and A is at +70.00 and B at -70.00.
C28_Witness ==
    /\ last.call.op = "CreateExpense"
    /\ last.result = Ok
    /\ Len(last.call.doc.paid_by) = 2
    /\ Len(last.call.doc.split.details) = 2
    /\ BalanceOf(Key("A", "g1")) = Cents(7000)
    /\ BalanceOf(Key("B", "g1")) = 0 - Cents(7000)
    /\ VersionOf(Key("A", "g1")) = 3

\* --------------------------------------------------- split calculator properties

\* The calculator was called with an expense of the given split types.
Calculated(types) ==
    /\ last.call.op = "calculateShares"
    /\ last.call.expense.split.type \in types

\* C29: an equal split has one share per user named as a payer or in the split
\* details, each user once; with N such users every share but the first is
\* amount/N and the first is amount/N plus amount - N * (amount/N), so that the
\* shares add up to the amount exactly; with N = 0 the split is refused.
C29_EqualSplitFirstAbsorbs ==
    Calculated({SplitEqual}) =>
       LET e == last.call.expense
           shares == last.call.shares
           ids == {e.paid_by[i].user : i \in DOMAIN e.paid_by}
                     \cup {e.split.details[i].user : i \in DOMAIN e.split.details}
           N == Cardinality(ids)
       IN IF N = 0
          THEN last.result # Ok
          ELSE /\ last.result = Ok
               /\ Len(shares) = N
               /\ {shares[i].user : i \in DOMAIN shares} = ids
               /\ \A i \in 2..N : shares[i].value = DivRound(e.amount, N)
               /\ shares[1].value
                     = DivRound(e.amount, N) + (e.amount - N * DivRound(e.amount, N))
               /\ SumValues(shares) = e.amount

\* 10.00 split equally among three users: two shares of 3.333 and a first share of
\* 3.334.
C29_Witness ==
    /\ Calculated({SplitEqual})
    /\ last.result = Ok
    /\ last.call.expense.amount = Cents(1000)
    /\ Len(last.call.shares) = 3
    /\ last.call.shares[1].value = 3334
    /\ last.call.shares[2].value = 3333
    /\ last.call.shares[3].value = 3333

\* What the entries of a percentage or weighted split are measured against.
Denominator(e) ==
    IF e.split.type = SplitPercentage THEN Hundred ELSE SumValues(e.split.details)

\* C30: in a percentage or weighted-shares split that is accepted, the shares keep
\* the users and the order of the entries; every entry but the last gets
\* value/100 * amount (percentage) or weight/totalWeight * amount (shares) and the
\* last gets the amount minus the sum of the shares before it; a weighted-shares
\* split is refused exactly when its list is empty or a weight is not positive.
C30_LastEntryAbsorbs ==
    Calculated({SplitPercentage, SplitShares}) =>
       LET e == last.call.expense
           raw == e.split.details
           shares == last.call.shares
           n == Len(raw)
       IN /\ last.result = Ok =>
                /\ Len(shares) = n
                /\ \A i \in 1..n : shares[i].user = raw[i].user
                /\ \A i \in 1..(n - 1) :
                      shares[i].value = Ratio(raw[i].value, Denominator(e), e.amount)
                /\ shares[n].value = e.amount - SumValues(SubSeq(shares, 1, n - 1))
          /\ e.split.type = SplitShares =>
                (last.result # Ok <=> (n = 0 \/ \E i \in 1..n : raw[i].value <= 0))

\* 10.00 in three shares of equal weight: 3.333 and 3.333 by ratio, and the last
\* entry takes 3.334.
C30_Witness ==
    /\ Calculated({SplitShares})
    /\ last.result = Ok
    /\ last.call.expense.amount = Cents(1000)
    /\ Len(last.call.shares) = 3
    /\ last.call.shares[1].value = 3333
    /\ last.call.shares[2].value = 3333
    /\ last.call.shares[3].value = 3334

\* ----------------------------------------------------- exact split properties

\* The values are there, each is positive and they add up to the amount within 0.01.
WellFormedExact(e) ==
    /\ e.split.details # <<>>
    /\ \A i \in DOMAIN e.split.details : e.split.details[i].value > 0
    /\ SumValues(e.split.details) - e.amount <= Eps
    /\ e.amount - SumValues(e.split.details) <= Eps

ExactErrors ==
    {"exact split requires split details", "invalid amount in exact split",
     "total specified amounts do not match expense amount"}

\* C31: an exact split whose list is not empty, whose values are all positive and
\* add up to the amount within 0.01 resolves to the listed entries unchanged and in
\* input order; any other exact split is refused with an error of the exact split
\* and the store holds nothing.
C31_ExactSplitVerbatim ==
    /\ \A p \in Procs :
          (call[p].op = "CreateExpense" /\ call[p].expense.split.type = SplitExact) =>
             /\ WellFormedExact(call[p].expense)
             /\ call[p].doc.split.details = call[p].expense.split.details
    /\ \A d \in expenses :
          (last.call.op = "CreateExpense" /\ last.call.expense.split.type = SplitExact) =>
             d.split.details = last.call.expense.split.details
    /\ (last.call.op = "CreateExpense"
          /\ last.call.expense.split.type = SplitExact
          /\ PassesEarlierChecks(last.call.expense)) =>
          IF WellFormedExact(last.call.expense)
          THEN last.result \in {Ok, ErrTransaction}
          ELSE last.result \in ExactErrors /\ NothingRecorded

\* An exact split of 10.00 into 3.00 for B and 7.00 for A is stored as given.
C31_Witness ==
    /\ last.call.op = "CreateExpense"
    /\ last.result = Ok
    /\ last.call.expense.split = [type |-> SplitExact,
                                  details |-> <<Raw("B", Cents(300)), Raw("A", Cents(700))>>]
    /\ \E d \in expenses :
          d.split.details = <<Raw("B", Cents(300)), Raw("A", Cents(700))>>

\* ------------------------------------------------------------ frame properties

\* The balance rows an expense may write: its payers and split participants in its
\* scope.
RowsOfExpense(doc) ==
    {Key(u, doc.group) : u \in {doc.paid_by[i].user : i \in DOMAIN doc.paid_by}
                              \cup {doc.split.details[i].user : i \in DOMAIN doc.split.details}}

\* The balance rows a settlement may write: its two parties in its scope.
RowsOfSettlement(d) == {Key(d.from, d.group), Key(d.to, d.group)}

\* C32: the commit of an expense changes no balance row but those of its payers and
\* split participants in the expense's scope, and the commit of a completeSettlement
\* changes no balance row but those of the from-user and the to-user in the
\* settlement's scope; every other row keeps its amount and its version.
C32_OnlyOwnRowsChange ==
    [][\A p \in Procs :
          /\ ExpenseCommits(p) =>
                \A k \in Keys \ RowsOfExpense(call[p].doc) : balances'[k] = balances[k]
          /\ CompleteCommits(p) =>
                \A k \in Keys \ RowsOfSettlement(settlements[call[p].sid]) :
                   balances'[k] = balances[k]]_vars

\* A settlement between A and B in the group has committed after a personal expense
\* among A, B and C: the personal rows still hold what the expense left there.
C32_Witness ==
    /\ last.call.op = "CompleteSettlement"
    /\ last.result = Ok
    /\ settlements[last.call.sid].group = "g1"
    /\ BalanceOf(Key("A", "g1")) = Cents(5000)
    /\ BalanceOf(Key("B", "g1")) = 0 - Cents(5000)
    /\ \E d \in expenses :
          /\ d.group = Nil
          /\ \A u \in {"A", "B", "C"} :
                /\ BalanceOf(Key(u, Nil)) = ExpenseEffect(d, Key(u, Nil))
                /\ BalanceOf(Key(u, Nil)) # 0

\* ------------------------------------------------------- share sign properties

\* C33: every share the split calculator resolves for an expense that passes the
\* structural checks is strictly positive, whatever the split type, the last entry
\* of a percentage or weighted-shares split included.
C33_SharesArePositive ==
    (/\ last.call.op = "calculateShares"
     /\ last.result = Ok
     /\ validateExpense(last.call.expense) = Nil) =>
       \A i \in DOMAIN last.call.shares : last.call.shares[i].value > 0

\* ---------------------------------------------------------------- C34
\* C34: two runs of the split calculator on the same expense give every
\* user the same share, the participant of an equal split who absorbs the
\* rounding remainder included.

UserShare(shares, u) ==
    IF \E i \in DOMAIN shares : shares[i].user = u
    THEN shares[CHOOSE i \in DOMAIN shares : shares[i].user = u].value
    ELSE Nil

SecondRunOnSameExpense ==
    /\ last.call.op = "calculateShares"
    /\ last'.call.op = "calculateShares"
    /\ nops' = nops + 1
    /\ last'.call.expense = last.call.expense
    /\ last.result = Ok
    /\ last'.result = Ok

OneEntryPerUser(all) ==
    \A g \in Groups : \A i, j \in DOMAIN all[g] :
        all[g][i].user_id = all[g][j].user_id => i = j

RemovalReturns ==
    /\ last' # last
    /\ last'.call.op \in {"RemoveMember", "LeaveGroup"}
    /\ last'.result = Ok

C35_OneEntryAndRemoved ==
    [][/\ OneEntryPerUser(members')
       /\ RemovalReturns => ~IsMember(members', last'.call.group, last'.call.user)]_vars

\* ---------------------------------------------------------------- C36
\* C36: RefreshToken of a correctly signed token that has expired returns a new
\* token for the same user id and email; of a token invalid for another reason
\* it returns an error; and it never ends in a nil dereference.

SignedButExpired(t, now) ==
    /\ t # NoToken
    /\ t.alg = "HS256"
    /\ t.signed
    /\ now > t.claims.exp
    /\ now >= t.claims.nbf

InvalidOtherwise(t, now) ==
    \/ t = NoToken
    \/ t.alg # "HS256"
    \/ ~t.signed
    \/ now < t.claims.nbf /\ now <= t.claims.exp

C36_RefreshOfExpired ==
    last.call.op = "RefreshToken" =>
        /\ last.result # NilDereference
        /\ SignedButExpired(last.call.token, last.call.now) =>
              /\ last.result = Ok
              /\ last.call.returned # NoToken
              /\ last.call.returned.claims.user_id = last.call.token.claims.user_id
              /\ last.call.returned.claims.email = last.call.token.claims.email
        /\ InvalidOtherwise(last.call.token, last.call.now) =>
              last.result \notin {Ok, NilDereference}

\* ---------------------------------------------------------------- C37
\* C37: for every client IP, in every interleaving, at most limit requests
\* are admitted with admission times within one window of one second; only
\* admitted requests are recorded against the window, so a rejected one is not;
\* and a request of one IP leaves the list of every other IP as it was, its own
\* admission being decided by the admissions of its own IP alone.

AdmittedIn(log, ip, from, to) ==
    Cardinality({i \in DOMAIN log[ip] :
                    /\ log[ip][i].status = StatusOK
                    /\ log[ip][i].time > from
                    /\ log[ip][i].time <= to})

Recorded(lim, ip, t) ==
    Cardinality({i \in DOMAIN lim.requests[ip] : lim.requests[ip][i] = t})

AtMostLimitPerWindow(log) ==
    \A ip \in ClientIPs : \A t \in Times :
        AdmittedIn(log, ip, t - window, t) <= limit

OnlyAdmittedRecorded(lim, log) ==
    \A ip \in ClientIPs : \A t \in Times :
        Recorded(lim, ip, t) <= AdmittedIn(log, ip, t - 1, t)

AllowReturns(p) == pc[p] = "allow" /\ pc'[p] = "idle"

C37_AtMostLimitPerWindow ==
    [][/\ AtMostLimitPerWindow(responses')
       /\ OnlyAdmittedRecorded(limiter', responses')
       /\ \A p \in Procs : \A ip \in ClientIPs :
             (pc'[p] = "allow" \/ pc[p] = "allow") /\ pc'[p] # pc[p] =>
                LET own == IF pc[p] = "allow" THEN call[p].ip ELSE call'[p].ip IN
                /\ ip # own => /\ limiter'.requests[ip] = limiter.requests[ip]
                               /\ responses'[ip] = responses[ip]
                /\ AllowReturns(p) /\ ip = own =>
                      (last'.result = StatusOK <=>
                          AdmittedIn(responses, ip, call[p].now - window, call[p].now) < limit)
                /\ AllowReturns(p) /\ ip = own /\ last'.result = StatusTooManyRequests =>
                      limiter'.requests[ip] = limiter.requests[ip]]_vars

C37_Witness ==
    \E ip \in ClientIPs :
        /\ \E i \in DOMAIN responses[ip] : responses[ip][i].status = StatusTooManyRequests
        /\ AdmittedIn(responses, ip, 0 - 1, MaxTime) > limit

====
